---- MODULE Spec2Model ----
(***************************************************************************)
(* Model of the similarity-ranking and area-detection engine of rad-ai:    *)
(* TestCaseAgent (agent/agent.py), TestCaseServer (mcp/test_case_server.py)*)
(* and the area configuration (agent/area_config.py).                      *)
(*                                                                         *)
(* Python strings are sequences of one-character strings, so that          *)
(* lower(), split() and the substring test `in` are computed on the        *)
(* characters.  Floats are fixed-point integers in units of 1/Scale:       *)
(* every float of the model (cosine of the modelled vectors, boost,        *)
(* confidence, thresholds) is an exact multiple of that unit.              *)
(***************************************************************************)
EXTENDS Integers, Sequences, FiniteSets, TLC

VARIABLES
    test_cases,        \* TestCaseAgent.test_cases: the loaded list of records
    embeddings_cache,  \* TestCaseAgent.embeddings_cache: text -> vector
    ret                \* the value returned by the latest call (with its arguments)

vars == <<test_cases, embeddings_cache, ret>>

\* One float unit: 1.0 is Scale, 0.0001 is 1.
Scale == 100 * 100

Min(a, b) == IF a <= b THEN a ELSE b

(***************************************************************************)
(* Python string operations                                                *)
(***************************************************************************)

\* The ASCII upper-case letters and their lower-case forms.
UpperToLower ==
    [c \in {"A", "B", "C", "D", "E", "F", "G", "H", "I", "J", "K", "L", "M", "N", "O",
            "P", "Q", "R", "S", "T", "U", "V", "W", "X", "Y", "Z"} |->
       CASE c = "A" -> "a" [] c = "B" -> "b" [] c = "C" -> "c" [] c = "D" -> "d"
         [] c = "E" -> "e" [] c = "F" -> "f" [] c = "G" -> "g" [] c = "H" -> "h"
         [] c = "I" -> "i" [] c = "J" -> "j" [] c = "K" -> "k" [] c = "L" -> "l"
         [] c = "M" -> "m" [] c = "N" -> "n" [] c = "O" -> "o" [] c = "P" -> "p"
         [] c = "Q" -> "q" [] c = "R" -> "r" [] c = "S" -> "s" [] c = "T" -> "t"
         [] c = "U" -> "u" [] c = "V" -> "v" [] c = "W" -> "w" [] c = "X" -> "x"
         [] c = "Y" -> "y" [] c = "Z" -> "z"]

\* str.lower() on one character.
LowerChar(c) == IF c \in DOMAIN UpperToLower THEN UpperToLower[c] ELSE c

\* str.lower(): every character lower-cased, in order.
RECURSIVE Lower(_)
Lower(s) == IF s = <<>> THEN <<>> ELSE <<LowerChar(Head(s))>> \o Lower(Tail(s))

\* `k in t` for two Python strings: k occurs in t as a contiguous substring.
IsSubstring(k, t) ==
    \E i \in 0..(Len(t) - Len(k)) : \A j \in 1..Len(k) : t[i + j] = k[j]

\* str.replace(old, new) for one-character old and new.
RECURSIVE ReplaceChar(_, _, _)
ReplaceChar(s, old, new) ==
    IF s = <<>> THEN <<>>
    ELSE <<IF Head(s) = old THEN new ELSE Head(s)>> \o ReplaceChar(Tail(s), old, new)

\* str.split() without arguments: the maximal runs of non-whitespace characters.
RECURSIVE SplitFrom(_, _, _)
SplitFrom(s, i, cur) ==
    IF i > Len(s)
    THEN IF cur = <<>> THEN <<>> ELSE <<cur>>
    ELSE IF s[i] = " "
         THEN (IF cur = <<>> THEN <<>> ELSE <<cur>>) \o SplitFrom(s, i + 1, <<>>)
         ELSE SplitFrom(s, i + 1, Append(cur, s[i]))

Split(s) == SplitFrom(s, 1, <<>>)

\* f"{a} {b}"
JoinSpace(a, b) == a \o <<" ">> \o b

(***************************************************************************)
(* agent/area_config.py                                                    *)
(***************************************************************************)

\* The keys of AREA_KEYWORDS in the order of the dict literal, which is the
\* order detect_relevant_areas iterates in.
AreaOrder ==
    <<"Expert Disbursements", "Billing", "Accounts Payable", "Collections",
      "Infrastructure">>

AREA_KEYWORDS ==
    [a \in {AreaOrder[i] : i \in 1..Len(AreaOrder)} |->
       CASE a = "Expert Disbursements" ->
              << <<"d","i","s","b","u","r","s","e","m","e","n","t">>, <<"d","i","s","b">>, <<"d","i","s","b","u","r","s","e","m","e","n","t","s">>, <<"e","x","p","e","n","s","e">>,
                 <<"r","e","i","m","b","u","r","s","e","m","e","n","t">>, <<"p","o","s","t","i","n","g">>, <<"s","p","l","i","t">>, <<"m","e","r","g","e">>,
                 <<"s","e","s","s","i","o","n">>, <<"c","o","s","t"," ","c","o","d","e">>, <<"a","n","t","i","c","i","p","a","t","e","d">>, <<"r","e","l","e","a","s","e">>,
                 <<"h","a","r","d"," ","d","i","s","b","u","r","s","e","m","e","n","t">>, <<"s","o","f","t"," ","d","i","s","b","u","r","s","e","m","e","n","t">>, <<"W","I","P">> >>
         [] a = "Billing" ->
              << <<"b","i","l","l","i","n","g">>, <<"b","i","l","l">>, <<"p","r","e","b","i","l","l">>, <<"i","n","v","o","i","c","e">>, <<"W","I","P">>,
                 <<"p","r","e","b","i","l","l","i","n","g">>, <<"m","a","r","k","u","p">>, <<"r","e","a","l","i","z","a","t","i","o","n">>, <<"t","i","m","e","k","e","e","p","e","r">>,
                 <<"r","a","t","e">>, <<"n","a","r","r","a","t","i","v","e">>, <<"p","r","o","f","o","r","m","a">>, <<"w","r","i","t","e","o","f","f">>, <<"w","r","i","t","e","-","o","f","f">>,
                 <<"b","i","l","l","i","n","g"," ","w","o","r","k","s","h","e","e","t">>, <<"f","i","n","a","l"," ","b","i","l","l">> >>
         [] a = "Accounts Payable" ->
              << <<"a","c","c","o","u","n","t","s"," ","p","a","y","a","b","l","e">>, <<"A","P">>, <<"v","e","n","d","o","r">>, <<"p","a","y","m","e","n","t">>,
                 <<"i","n","v","o","i","c","e"," ","e","n","t","r","y">>, <<"p","a","y","a","b","l","e">>, <<"c","h","e","c","k">>, <<"v","o","u","c","h","e","r">>,
                 <<"v","e","n","d","o","r"," ","i","n","v","o","i","c","e">>, <<"A","P"," ","i","n","v","o","i","c","e">>, <<"p","a","y","m","e","n","t"," ","p","r","o","c","e","s","s","i","n","g">> >>
         [] a = "Collections" ->
              << <<"c","o","l","l","e","c","t","i","o","n","s">>, <<"c","o","l","l","e","c","t","o","r">>, <<"p","a","y","o","r">>, <<"p","a","y","m","e","n","t"," ","p","l","a","n">>,
                 <<"A","R">>, <<"r","e","c","e","i","v","a","b","l","e">>, <<"a","c","t","i","v","i","t","y">>, <<"e","x","p","e","c","t","e","d"," ","p","a","y","m","e","n","t">>,
                 <<"a","g","i","n","g">>, <<"o","u","t","s","t","a","n","d","i","n","g">>, <<"c","o","l","l","e","c","t","i","o","n"," ","a","c","t","i","v","i","t","y">>,
                 <<"p","a","y","o","r"," ","w","o","r","k","s","p","a","c","e">> >>
         [] a = "Infrastructure" ->
              << <<"i","n","f","r","a","s","t","r","u","c","t","u","r","e">>, <<"s","e","c","u","r","i","t","y">>, <<"e","x","p","a","n","s","i","o","n"," ","c","o","d","e">>,
                 <<"s","m","a","r","t","f","o","r","m">>, <<"c","u","s","t","o","m","i","z","a","t","i","o","n">>, <<"d","e","p","l","o","y","m","e","n","t">>,
                 <<"u","p","g","r","a","d","e">>, <<"t","o","o","l","k","i","t">>, <<"w","o","r","k","f","l","o","w">>, <<"U","X"," ","t","o","o","l","k","i","t">>,
                 <<"p","e","r","m","i","s","s","i","o","n","s">>, <<"u","s","e","r"," ","m","a","n","a","g","e","m","e","n","t">>, <<"c","o","n","f","i","g","u","r","a","t","i","o","n">> >>]

AREA_PRIORITY ==
    <<"Expert Disbursements", "Accounts Payable", "Collections", "Billing",
      "Infrastructure">>

(***************************************************************************)
(* mcp/test_case_server.py: TestCaseServer.detect_relevant_areas           *)
(***************************************************************************)

\* A count that compares the keywords as configured, without lower-casing them.
CountKeywordMatches_CaseSensitive(keywords, combined_text) ==
    Cardinality({i \in 1..Len(keywords) : IsSubstring(keywords[i], combined_text)})

\* sum(1 for keyword in keywords if keyword.lower() in combined_text)
CountKeywordMatches(keywords, combined_text) ==
    Cardinality({i \in 1..Len(keywords) : IsSubstring(Lower(keywords[i]), combined_text)})

\* The least number of keyword matches that makes an area relevant.
MinKeywordMatches == 2

\* An area made relevant by a single keyword.
AreaIsRelevant_OneMatch(matches) == matches >= 1

AreaIsRelevant(matches) == matches >= MinKeywordMatches

\* The confidence without its quadratic term.
AreaConfidence_Linear(matches) == Min(Scale, matches * 1500)

\* min(1.0, (matches * 0.15) + (matches * matches * 0.02))
AreaConfidence(matches) ==
    Min(Scale, matches * 1500 + matches * matches * 200)

\* round(x, 3): to the nearest multiple of 0.001.
Round3(x) == ((x + 5) \div 10) * 10

\* The entry of area_scores for an area with `matches` matching keywords, if any.
AreaScore(area_name, matches, total_keywords) ==
    IF AreaIsRelevant(matches)
    THEN << [area_name        |-> area_name,
             confidence       |-> Round3(AreaConfidence(matches)),
             matched_keywords |-> matches,
             total_keywords   |-> total_keywords] >>
    ELSE <<>>

\* area_scores: the (area, scores) items in insertion order.
RECURSIVE AreaScoresFrom(_, _)
AreaScoresFrom(i, combined_text) ==
    IF i > Len(AreaOrder) THEN <<>>
    ELSE AreaScore(AreaOrder[i],
                   CountKeywordMatches(AREA_KEYWORDS[AreaOrder[i]], combined_text),
                   Len(AREA_KEYWORDS[AreaOrder[i]]))
         \o AreaScoresFrom(i + 1, combined_text)

\* The sort key (confidence, matched_keywords) of a is strictly below that of b.
AreaKeyLess(a, b) ==
    \/ a.confidence < b.confidence
    \/ a.confidence = b.confidence /\ a.matched_keywords < b.matched_keywords

\* sorted(items, key=..., reverse=True): a stable sort, so items with equal keys
\* keep their order.  x goes before the first item whose key is strictly lower.
RECURSIVE InsertArea(_, _)
InsertArea(x, sorted) ==
    IF sorted = <<>> THEN <<x>>
    ELSE IF AreaKeyLess(Head(sorted), x)
         THEN <<x>> \o sorted
         ELSE <<Head(sorted)>> \o InsertArea(x, Tail(sorted))

RECURSIVE SortAreas(_)
SortAreas(items) ==
    IF items = <<>> THEN <<>>
    ELSE InsertArea(items[Len(items)], SortAreas(SubSeq(items, 1, Len(items) - 1)))

\* A recommendation that never looks at the second area.
GetAreaRecommendation_NoSecond(sorted_areas) ==
    IF sorted_areas = <<>>
    THEN [kind |-> "no_clear_area", areas |-> <<>>, matches |-> 0]
    ELSE LET top == sorted_areas[1] IN
         IF top.confidence >= 5000 /\ top.matched_keywords >= 3
         THEN [kind |-> "high_confidence", areas |-> <<top.area_name>>,
               matches |-> top.matched_keywords]
         ELSE IF top.confidence >= 3000
              THEN [kind |-> "moderate_confidence", areas |-> <<top.area_name>>,
                    matches |-> top.matched_keywords]
              ELSE [kind |-> "low_confidence", areas |-> <<>>,
                    matches |-> top.matched_keywords]

\* TestCaseServer._get_area_recommendation: the kind of the f-string returned and
\* the values formatted into it.
GetAreaRecommendation(sorted_areas) ==
    IF sorted_areas = <<>>
    THEN [kind |-> "no_clear_area", areas |-> <<>>, matches |-> 0]
    ELSE LET top == sorted_areas[1] IN
         IF top.confidence >= 5000 /\ top.matched_keywords >= 3
         THEN IF Len(sorted_areas) > 1 /\ sorted_areas[2].confidence >= 3500
              THEN [kind |-> "multi_area",
                    areas |-> <<top.area_name, sorted_areas[2].area_name>>,
                    matches |-> top.matched_keywords]
              ELSE [kind |-> "high_confidence", areas |-> <<top.area_name>>,
                    matches |-> top.matched_keywords]
         ELSE IF top.confidence >= 3000
              THEN [kind |-> "moderate_confidence", areas |-> <<top.area_name>>,
                    matches |-> top.matched_keywords]
              ELSE [kind |-> "low_confidence", areas |-> <<>>,
                    matches |-> top.matched_keywords]

\* The dictionary detect_relevant_areas returns for the sorted areas.
DetectionResult(sorted_areas) ==
    [detected_areas |-> sorted_areas,
     top_area       |-> IF sorted_areas = <<>> THEN "None"
                        ELSE sorted_areas[1].area_name,
     recommendation |-> GetAreaRecommendation(sorted_areas)]

\* TestCaseServer.detect_relevant_areas
DetectRelevantAreas(bug_description, repro_steps) ==
    DetectionResult(
        SortAreas(AreaScoresFrom(1, Lower(JoinSpace(bug_description, repro_steps)))))


(***************************************************************************)
(* mcp/test_case_server.py: the store of shards and search_by_area         *)
(***************************************************************************)

\* The keys of CSV_FILE_MAPPING in the order of the dict literal.
CSV_FILE_MAPPING ==
    <<"Expert Disbursements", "Billing", "Accounts Payable", "Collections",
      "Infrastructure">>

\* get_all_areas(): list(CSV_FILE_MAPPING.keys())
GetAllAreas == CSV_FILE_MAPPING

\* A row of a shard's CSV file as _load_csv builds it.
ShardRow(id, title, area) ==
    [id |-> id, title |-> title, state |-> "Ready", area |-> area,
     created_date |-> "", description |-> <<>>, steps |-> <<>>]

\* TestCaseServer.test_cases_cache after _load_all_test_cases: one list per
\* configured area, empty for an area whose file could not be read.  The Billing
\* shard holds six records of one text and area and one record in another state
\* without area.
TestCasesCache ==
    [a \in {CSV_FILE_MAPPING[i] : i \in 1..Len(CSV_FILE_MAPPING)} |->
       CASE a = "Expert Disbursements" ->
              << ShardRow("e1", <<"p","a","y">>, <<"E","x","p","e","r","t","\\","D","i","s","b","u","r","s","e","m","e","n","t","s">>) >>
         [] a = "Billing" ->
              << ShardRow("b1", <<"i","n","v">>, <<"B","i","l","l","i","n","g","\\","B","i","l","l">>),
                 ShardRow("b2", <<"i","n","v">>, <<"B","i","l","l","i","n","g","\\","B","i","l","l">>),
                 ShardRow("b3", <<"i","n","v">>, <<"B","i","l","l","i","n","g","\\","B","i","l","l">>),
                 [ShardRow("b4", <<"p","a","y">>, <<>>) EXCEPT !.state = "Design"],
                 ShardRow("b5", <<"i","n","v">>, <<"B","i","l","l","i","n","g","\\","B","i","l","l">>),
                 ShardRow("b6", <<"i","n","v">>, <<"B","i","l","l","i","n","g","\\","B","i","l","l">>),
                 ShardRow("b7", <<"i","n","v">>, <<"B","i","l","l","i","n","g","\\","B","i","l","l">>) >>
         [] OTHER -> <<>>]

\* {**tc, 'source_area': area_name}
WithSourceArea(tc, area_name) ==
    [id |-> tc.id, title |-> tc.title, state |-> tc.state, area |-> tc.area,
     created_date |-> tc.created_date, description |-> tc.description,
     steps |-> tc.steps, source_area |-> area_name]

\* The records search_by_area collects for one area name (no state filter, no
\* limit): none for a name that is not in the cache.
AreaResults(area_name) ==
    IF area_name \notin DOMAIN TestCasesCache THEN <<>>
    ELSE [i \in 1..Len(TestCasesCache[area_name]) |->
             WithSourceArea(TestCasesCache[area_name][i], area_name)]

RECURSIVE SearchResults(_)
SearchResults(area_names) ==
    IF area_names = <<>> THEN <<>>
    ELSE AreaResults(Head(area_names)) \o SearchResults(Tail(area_names))

\* TestCaseServer.search_by_area(area_names)
SearchByArea(area_names) ==
    [test_cases     |-> SearchResults(area_names),
     count          |-> Len(SearchResults(area_names)),
     areas_searched |-> area_names]

\* Every record search_by_area can return.
LoadedRows ==
    {SearchResults(CSV_FILE_MAPPING)[i] : i \in 1..Len(SearchResults(CSV_FILE_MAPPING))}


(***************************************************************************)
(* mcp/test_case_server.py: _load_all_test_cases and _load_csv             *)
(***************************************************************************)

\* A row of a source file: one csv.DictReader yields as a dictionary, or one at
\* which reading raises (csv.Error, UnicodeDecodeError).
ReadableRow(tc) == [readable |-> TRUE, row |-> tc]
FailingRow == [readable |-> FALSE, row |-> ShardRow("", <<>>, <<>>)]

\* The rows of the source files.
SourceRows ==
    { ReadableRow(ShardRow("s1", <<"i","n","v">>, <<"B","i","l","l","i","n","g","\\","B","i","l","l">>)),
      ReadableRow(ShardRow("s2", <<"p","a","y">>, <<>>)),
      FailingRow }

\* The longest source file.
MaxSourceRows == 3

\* The source files of a shard.
Sources == UNION {[1..n -> SourceRows] : n \in 0..MaxSourceRows}

\* The source files of a second shard.
OtherSources == { <<>>, <<FailingRow>>, <<ReadableRow(ShardRow("e1", <<"p","a","y">>, <<>>))>> }

\* The loop of _load_csv from row i on: the try block encloses the whole loop,
\* so the exception of a failing row ends it and the rows appended so far are
\* returned.
RECURSIVE LoadCsvFrom(_, _)
LoadCsvFrom(source, i) ==
    IF i > Len(source) THEN <<>>
    ELSE IF source[i].readable
         THEN <<source[i].row>> \o LoadCsvFrom(source, i + 1)
         ELSE <<>>

\* TestCaseServer._load_all_test_cases for the source file of every area
\* (_load_csv raises nothing, so the except branch is not taken).
LoadAllTestCases(sources) == [a \in DOMAIN sources |-> LoadCsvFrom(sources[a], 1)]

(***************************************************************************)
(* mcp/test_case_server.py: search_by_area with limit and state_filter     *)
(***************************************************************************)

\* An Optional argument is a sequence: empty for None, else its one value.
None == <<>>
Some(x) == <<x>>

\* `if state_filter:` is false for None and for the empty string.
StateFilterApplies(state_filter) == state_filter # None /\ state_filter[1] # ""

\* `if limit:` is false for None and for 0.
LimitApplies(limit) == limit # None /\ limit[1] # 0

\* test_cases[:k] for an integer k, negative ones included.
SliceUpTo(s, k) ==
    IF k >= 0 THEN SubSeq(s, 1, Min(k, Len(s)))
    ELSE SubSeq(s, 1, Len(s) + k)

\* [tc for tc in test_cases if tc['state'] == state_filter], when applied.
StateFiltered(tcs, state_filter) ==
    IF StateFilterApplies(state_filter)
    THEN SelectSeq(tcs, LAMBDA tc : tc.state = state_filter[1])
    ELSE tcs

\* test_cases[:limit], when applied.
Limited(tcs, limit) ==
    IF LimitApplies(limit) THEN SliceUpTo(tcs, limit[1]) ELSE tcs

\* The records collected for one area name.
AreaResultsWith(area_name, limit, state_filter) ==
    IF area_name \notin DOMAIN TestCasesCache THEN <<>>
    ELSE LET found == Limited(StateFiltered(TestCasesCache[area_name], state_filter), limit)
         IN  [i \in 1..Len(found) |-> WithSourceArea(found[i], area_name)]

RECURSIVE SearchResultsWith(_, _, _)
SearchResultsWith(area_names, limit, state_filter) ==
    IF area_names = <<>> THEN <<>>
    ELSE AreaResultsWith(Head(area_names), limit, state_filter)
         \o SearchResultsWith(Tail(area_names), limit, state_filter)

\* TestCaseServer.search_by_area(area_names, limit, state_filter)
SearchByAreaWith(area_names, limit, state_filter) ==
    [test_cases     |-> SearchResultsWith(area_names, limit, state_filter),
     count          |-> Len(SearchResultsWith(area_names, limit, state_filter)),
     areas_searched |-> area_names]

\* The arguments of the searches.
SearchedAreas ==
    { <<"Billing">>, <<"Expert Disbursements", "Billing">>, <<"Payroll">>,
      <<"Payroll", "Billing">>, <<>> }
Limits == { None, Some(0 - 1), Some(0), Some(1), Some(2), Some(10) }
StateFilters == { None, Some(""), Some("Ready"), Some("Design"), Some("Closed") }
(***************************************************************************)
(* Inputs                                                                  *)
(***************************************************************************)

\* The rows a CSV file can hold.  TC_C carries the id of TC_A (ids are not checked
\* for uniqueness) with the text of TC_B and no area.
TC_A ==
    [id |-> "101", title |-> <<"i","n","v">>, state |-> "Ready", area |-> <<"B","i","l","l","i","n","g","\\","I","n","v","o","i","c","i","n","g">>,
     created_date |-> "", description |-> <<>>, steps |-> <<>>]
TC_B ==
    [id |-> "202", title |-> <<"p","a","y">>, state |-> "Ready", area |-> <<"C","o","l","l","e","c","t","i","o","n","s","\\","P","a","y","o","r">>,
     created_date |-> "", description |-> <<>>, steps |-> <<>>]
TC_C ==
    [id |-> "101", title |-> <<"p","a","y">>, state |-> "Design", area |-> <<>>,
     created_date |-> "", description |-> <<>>, steps |-> <<>>]

Rows == {TC_A, TC_B, TC_C}

\* The longest CSV file loaded.
MaxRows == 2

CsvFiles == UNION {[1..n -> Rows] : n \in 0..MaxRows}

QueryInvoice == <<"i","n","v","o","i","c","e"," ","g","e","n","e","r","a","t","i","o","n"," ","f","a","i","l","s">>
QueryBilling == <<"B","i","l","l","i","n","g"," ","p","a","y","o","r"," ","i","n","v","o","i","c","i","n","g">>

BugDescriptions == {QueryInvoice, QueryBilling}
ReproSteps == { <<>> }

\* f"{bug_description} {repro_steps}" for the inputs above.
BugTexts == {JoinSpace(d, s) : d \in BugDescriptions, s \in ReproSteps}
TopKs == {1, 2}
MinSimilarities == {3500, 9500}

\* The texts of the area detector: bug descriptions and reproduction steps.
DetectTexts ==
    { <<>>,
      <<"b","i","l","l","i","n","g">>,
      <<"d","i","s","b","u","r","s","e","m","e","n","t","s">>,
      <<"v","e","n","d","o","r"," ","c","h","e","c","k">>,
      <<"i","n","v","o","i","c","e"," ","e","n","t","r","y"," ","W","I","P"," ","v","e","n","d","o","r">>,
      <<"P","a","y","m","e","n","t"," ","p","l","a","n"," ","f","o","r"," ","p","a","y","o","r">>,
      <<"h","a","p","p","y">>,
      <<"s","e","c","u","r","i","t","y"," ","p","e","r","m","i","s","s","i","o","n","s"," ","w","o","r","k","f","l","o","w">>,
      <<"A","P"," ","i","n","v","o","i","c","e"," ","v","o","u","c","h","e","r"," ","p","a","y","a","b","l","e"," ","c","h","e","c","k">>,
      <<"u","p","g","r","a","d","e"," ","t","o","o","l","k","i","t">>,
      <<"s","p","l","i","t"," ","m","e","r","g","e"," ","p","o","s","t","i","n","g"," ","s","e","s","s","i","o","n">>,
      <<"p","r","e","b","i","l","l","i","n","g">> }

\* The descriptions of the bug reports analysed: one with two keywords of
\* Billing, one with two keywords of Collections.
AnalysisDescriptions == { <<"b","i","l","l","i","n","g">>, <<"P","a","y","m","e","n","t"," ","p","l","a","n"," ","f","o","r"," ","p","a","y","o","r">> }

\* f"{bug_description} {repro_steps}" for the reports analysed.
AnalysisBugTexts == {JoinSpace(d, s) : d \in AnalysisDescriptions, s \in ReproSteps}

\* The level names passed as strictness; "Strict" is not a key of the table.
StrictnessLevels == {"lenient", "moderate", "strict", "Strict"}

\* The replies of the reasoning collaborator: no JSON at all, braces in the
\* wrong order, an opening brace only, a malformed object, an object inside
\* other text, and two objects.
RepliesNotJson == { <<"x">>, <<"}", "x", "{">>, <<"{", "x">> }
RepliesMalformed == { <<"{", "x", "}">>, <<"{", "}", "{", "}">> }
RepliesParsed == { <<"x", "{", "}", "x">>, <<"{", "g", "}">> }

\* Every reply of the reasoning collaborator.
Replies == RepliesNotJson \cup RepliesMalformed \cup RepliesParsed

\* Replies that are valid JSON whose duplicate_groups is empty or names pair ids
\* 0, -1, 1 twice, 2 and 21.
RepliesPairIds == { <<"{", k, "}">> : k \in {"e", "z", "n", "r", "t", "o"} }

\* A row of a file uploaded for duplicate detection.
UploadRow(id, title) ==
    [id |-> id, title |-> title, state |-> "Ready", area |-> <<>>,
     created_date |-> "", description |-> <<>>, steps |-> <<>>]

\* The files uploaded for duplicate detection: seven records of two texts (21
\* pairs), two identical records under one id, two identical records under two
\* ids, two texts under one id followed by a third record, and a single record.
DuplicateFiles ==
    { << UploadRow("1", <<"i","n","v">>), UploadRow("2", <<"i","n","v">>), UploadRow("3", <<"i","n","v">>),
         UploadRow("4", <<"i","n","v">>), UploadRow("5", <<"p","a","y">>), UploadRow("6", <<"p","a","y">>),
         UploadRow("7", <<"p","a","y">>) >>,
      << UploadRow("1", <<"i","n","v">>), UploadRow("1", <<"i","n","v">>) >>,
      << UploadRow("1", <<"i","n","v">>), UploadRow("2", <<"i","n","v">>) >>,
      << UploadRow("1", <<"i","n","v">>), UploadRow("1", <<"p","a","y">>), UploadRow("2", <<"i","n","v">>) >>,
      << UploadRow("1", <<"i","n","v">>) >> }

DuplicateRows == UNION {{rows[i] : i \in 1..Len(rows)} : rows \in DuplicateFiles}

\* The values passed as similarity_threshold: 0.30 and the default 0.90.
DuplicateThresholds == {3000, 9000}

(***************************************************************************)
(* agent/agent.py: embeddings and cosine similarity                        *)
(***************************************************************************)

\* The vectors the embedding provider (SentenceTransformer.encode) can return
\* for a text: the zero vector and two directions whose norms are integers.
Vectors == { <<0, 0>>, <<7, 24>>, <<15, 20>> }

\* np.dot(a, b)
Dot(a, b) == a[1] * b[1] + a[2] * b[2]

\* The square root of a perfect square that is at most bound * bound.
SqrtOf(square, bound) == CHOOSE r \in 0..bound : r * r = square

Abs(x) == IF x < 0 THEN 0 - x ELSE x

\* np.linalg.norm(a); the norm of each vector the provider returns is an integer.
Norm(a) == SqrtOf(Dot(a, a), Abs(a[1]) + Abs(a[2]))

\* The cosine similarity of find_similar_test_cases, 0.0 when a norm is zero.
Cosine(a, b) ==
    LET norm_a == Norm(a)
        norm_b == Norm(b)
    IN  IF norm_a > 0 /\ norm_b > 0
        THEN (Dot(a, b) * Scale) \div (norm_a * norm_b)
        ELSE 0

\* The vectors the provider returns in the pipeline: two directions of integer
\* norm whose cosine is 0.352.
AnalysisVectors == { <<0 - 7, 24>>, <<20, 15>> }

\* The vectors the provider returns in duplicate detection: those and the zero
\* vector.
DuplicateVectors == AnalysisVectors \cup { <<0, 0>> }

\* The cosine similarity of every two vectors of the provider.
Cosines ==
    [a \in Vectors \cup AnalysisVectors, b \in Vectors \cup AnalysisVectors |->
        Cosine(a, b)]

\* f"{tc['title']} {tc['description']} {tc['steps']}"
CombinedText(tc) == JoinSpace(JoinSpace(tc.title, tc.description), tc.steps)

\* TestCaseAgent.compute_test_case_embeddings: the dictionary from test case id
\* to embedding; a later record with the same id overwrites the entry.
ComputeTestCaseEmbeddings(tcs, cache) ==
    [id \in {tcs[i].id : i \in 1..Len(tcs)} |->
        LET last == CHOOSE i \in 1..Len(tcs) :
                       /\ tcs[i].id = id
                       /\ \A j \in (i + 1)..Len(tcs) : tcs[j].id # id
        IN  cache[CombinedText(tcs[last])]]

(***************************************************************************)
(* agent/agent.py: TestCaseAgent._calculate_area_similarity_boost          *)
(***************************************************************************)

\* test_area.replace('\\', ' ').replace('/', ' ').split()
AreaKeywords(test_area) ==
    Split(ReplaceChar(ReplaceChar(test_area, "\\", " "), "/", " "))

\* sum(1 for kw in area_keywords if kw and kw in bug_text_lower)
CountAreaMatches(area_keywords, bug_text_lower) ==
    Cardinality({i \in 1..Len(area_keywords) :
                    /\ area_keywords[i] # <<>>
                    /\ IsSubstring(area_keywords[i], bug_text_lower)})

\* The boost without its cap.
AreaBoostFor_NoCap(matches) == matches * 800

\* min(0.15, matches * 0.08)
AreaBoostFor(matches) == Min(1500, matches * 800)

\* The penalty when the bug text names no keyword of the area: -0.05.
AreaPenalty == 0 - 500

CalculateAreaSimilarityBoost(test_case, bug_text) ==
    LET test_area      == Lower(test_case.area)
        bug_text_lower == Lower(bug_text)
        matches        == CountAreaMatches(AreaKeywords(test_area), bug_text_lower)
    IN  IF test_area = <<>> THEN 0
        ELSE IF matches > 0 THEN AreaBoostFor(matches)
        ELSE AreaPenalty

\* The adjustment for every row and bug text of the inputs.
AreaBoosts ==
    [tc \in Rows \cup LoadedRows \cup DuplicateRows, bug_text \in BugTexts \cup AnalysisBugTexts |->
        CalculateAreaSimilarityBoost(tc, bug_text)]

(***************************************************************************)
(* agent/agent.py: TestCaseAgent.find_similar_test_cases                   *)
(***************************************************************************)

\* The adjusted similarity without its cap.
ApplyBoost_NoCap(similarity, area_boost) == similarity + area_boost

\* similarity = min(1.0, similarity + area_boost)
ApplyBoost(similarity, area_boost) == Min(Scale, similarity + area_boost)

\* if similarity >= min_similarity
PassesThreshold(similarity, min_similarity) == similarity >= min_similarity

\* An insertion that puts x before the entries of equal score: equal scores come
\* out in reverse order.
RECURSIVE InsertByScore_TiesReversed(_, _)
InsertByScore_TiesReversed(x, sorted) ==
    IF sorted = <<>> THEN <<x>>
    ELSE IF Head(sorted).score <= x.score
         THEN <<x>> \o sorted
         ELSE <<Head(sorted)>> \o InsertByScore_TiesReversed(x, Tail(sorted))

\* An insertion in ascending order of score: the sort without reverse=True.
RECURSIVE InsertByScore_Ascending(_, _)
InsertByScore_Ascending(x, sorted) ==
    IF sorted = <<>> THEN <<x>>
    ELSE IF Head(sorted).score > x.score
         THEN <<x>> \o sorted
         ELSE <<Head(sorted)>> \o InsertByScore_Ascending(x, Tail(sorted))

\* similarities.sort(key=lambda x: x[1], reverse=True): a stable sort, so entries
\* with equal scores keep their order.  x goes before the first entry whose score
\* is strictly lower.
RECURSIVE InsertByScore(_, _)
InsertByScore(x, sorted) ==
    IF sorted = <<>> THEN <<x>>
    ELSE IF Head(sorted).score < x.score
         THEN <<x>> \o sorted
         ELSE <<Head(sorted)>> \o InsertByScore(x, Tail(sorted))

\* No sort at all: the entries in the order of the loop.
SortByScore_Unsorted(s) == s

RECURSIVE SortByScore(_)
SortByScore(s) ==
    IF s = <<>> THEN <<>>
    ELSE InsertByScore(s[Len(s)], SortByScore(SubSeq(s, 1, Len(s) - 1)))

\* A slice that forgets the cut: the whole list.
SliceTo_NoCut(s, k) == s

\* s[:k]
SliceTo(s, k) ==
    IF k >= 0 THEN SubSeq(s, 1, Min(k, Len(s)))
    ELSE SubSeq(s, 1, Len(s) + k)

\* One iteration of the scoring loop for a record: the cosine similarity, the
\* area adjustment and the similarity compared with min_similarity.
ScoreOf(similarity, area_boost, apply_area_boost) ==
    [pre   |-> similarity,
     boost |-> IF apply_area_boost THEN area_boost ELSE 0,
     score |-> IF apply_area_boost THEN ApplyBoost(similarity, area_boost)
               ELSE similarity]

\* The scoring loop over self.test_cases, from record i on.
RECURSIVE ScoreLoop(_, _, _, _, _, _)
ScoreLoop(i, tcs, bug_embedding, tc_embeddings, bug_text, apply_area_boost) ==
    IF i > Len(tcs) THEN <<>>
    ELSE << ScoreOf(Cosines[bug_embedding, tc_embeddings[tcs[i].id]],
                    IF apply_area_boost
                    THEN AreaBoosts[tcs[i], bug_text]
                    ELSE 0,
                    apply_area_boost) >>
         \o ScoreLoop(i + 1, tcs, bug_embedding, tc_embeddings, bug_text,
                      apply_area_boost)

\* The (tc, similarity) entries the loop appends, in the order of the list; tc is
\* the record at position pos of self.test_cases.
RECURSIVE SimilaritiesFrom(_, _, _, _)
SimilaritiesFrom(i, tcs, scored, min_similarity) ==
    IF i > Len(tcs) THEN <<>>
    ELSE (IF PassesThreshold(scored[i].score, min_similarity)
          THEN << [pos |-> i, score |-> scored[i].score] >>
          ELSE <<>>)
         \o SimilaritiesFrom(i + 1, tcs, scored, min_similarity)

\* The list returned for the scores of the loop.
RankScored(tcs, scored, top_k, min_similarity) ==
    SliceTo(SortByScore(SimilaritiesFrom(1, tcs, scored, min_similarity)), top_k)

\* The body of find_similar_test_cases once every text it embeds is in the cache:
\* the scores of the loop.
ScoreAll(tcs, cache, bug_text, apply_area_boost) ==
    ScoreLoop(1, tcs, cache[bug_text], ComputeTestCaseEmbeddings(tcs, cache),
              bug_text, apply_area_boost)

(***************************************************************************)
(* State machine                                                           *)
(***************************************************************************)

Init ==
    /\ test_cases = <<>>
    /\ embeddings_cache = <<>>
    /\ ret = [op |-> "init"]

\* TestCaseAgent.load_test_cases_from_csv
load_test_cases_from_csv(rows) ==
    /\ test_cases' = rows
    /\ ret' = [op |-> "load_test_cases_from_csv", test_cases |-> rows]
    /\ UNCHANGED embeddings_cache

\* TestCaseAgent.find_similar_test_cases.  get_embedding asks the provider for
\* each text that is not cached yet and stores the vector.
find_similar_test_cases(bug_description, repro_steps, top_k, min_similarity, apply_area_boost) ==
    \E bug_text \in {JoinSpace(bug_description, repro_steps)} :
    \E missing \in {({bug_text} \cup {CombinedText(test_cases[i]) : i \in 1..Len(test_cases)})
                        \ DOMAIN embeddings_cache} :
    \E encoded \in [missing -> Vectors] :
    \E cache \in {embeddings_cache @@ encoded} :
    \E scored \in {ScoreAll(test_cases, cache, bug_text, apply_area_boost)} :
        /\ embeddings_cache' = cache
        /\ ret' = [op               |-> "find_similar_test_cases",
                   bug_text         |-> bug_text,
                   top_k            |-> top_k,
                   min_similarity   |-> min_similarity,
                   apply_area_boost |-> apply_area_boost,
                   scored           |-> scored,
                   result           |-> RankScored(test_cases, scored, top_k,
                                                   min_similarity)]
        /\ UNCHANGED test_cases

\* TestCaseServer.detect_relevant_areas
detect_relevant_areas(bug_description, repro_steps) ==
    /\ ret' = [op              |-> "detect_relevant_areas",
               bug_description |-> bug_description,
               repro_steps     |-> repro_steps,
               combined_text   |-> Lower(JoinSpace(bug_description, repro_steps)),
               result          |-> DetectRelevantAreas(bug_description, repro_steps)]
    /\ UNCHANGED <<test_cases, embeddings_cache>>

Next ==
    \/ \E rows \in CsvFiles : load_test_cases_from_csv(rows)
    \/ \E d \in BugDescriptions, s \in ReproSteps, k \in TopKs,
          m \in MinSimilarities, b \in BOOLEAN :
          find_similar_test_cases(d, s, k, m, b)

\* TestCaseAgent: construction, then loads and ranking calls in any order.
Spec == Init /\ [][Next]_vars

\* TestCaseServer's area detector: a function of the two texts.
NextDetect ==
    \E d \in DetectTexts, s \in DetectTexts : detect_relevant_areas(d, s)

SpecDetect == Init /\ [][NextDetect]_vars


(***************************************************************************)
(* agent/agent.py: TestCaseAgent.detect_and_load_test_cases                *)
(***************************************************************************)

\* A choice that adds the second area on its confidence alone.
AreasToLoad_SecondByConfidence(detected, force_all) ==
    IF force_all \/ detected = <<>> THEN GetAllAreas
    ELSE IF detected[1].confidence >= 3000 /\ detected[1].matched_keywords >= 2
         THEN <<detected[1].area_name>>
              \o (IF Len(detected) > 1 /\ detected[2].confidence >= 3500
                  THEN <<detected[2].area_name>>
                  ELSE <<>>)
         ELSE GetAllAreas

\* areas_to_load of detect_and_load_test_cases.
AreasToLoad(detected, force_all) ==
    IF force_all \/ detected = <<>> THEN GetAllAreas
    ELSE IF detected[1].confidence >= 3000 /\ detected[1].matched_keywords >= 2
         THEN <<detected[1].area_name>>
              \o (IF Len(detected) > 1 /\ detected[2].confidence >= 3500
                     /\ detected[2].matched_keywords >= 3
                  THEN <<detected[2].area_name>>
                  ELSE <<>>)
         ELSE GetAllAreas

\* The dictionary detect_and_load_test_cases returns, with the list it loads.
LoadResult(detection_result, areas_to_load) ==
    [detection        |-> detection_result,
     areas_loaded     |-> areas_to_load,
     test_cases       |-> SearchByArea(areas_to_load).test_cases,
     test_cases_count |-> Len(SearchByArea(areas_to_load).test_cases),
     recommendation   |-> detection_result.recommendation]

\* The result of detect_relevant_areas for every pair of texts of the inputs.
Detections ==
    [d \in DetectTexts, s \in DetectTexts |-> DetectRelevantAreas(d, s)]

\* TestCaseAgent.detect_and_load_test_cases as a function of its arguments.
DetectAndLoad(bug_description, repro_steps, force_all) ==
    LoadResult(Detections[bug_description, repro_steps],
               AreasToLoad(Detections[bug_description, repro_steps].detected_areas,
                           force_all))

(***************************************************************************)
(* agent/agent.py: TestCaseAgent._get_strictness_thresholds                *)
(***************************************************************************)

\* The dictionary `thresholds` of _get_strictness_thresholds.
StrictnessThresholds ==
    [lenient  |-> [min_similarity |-> 3500, csv_export |-> 4000, claude_analysis |-> 4500],
     moderate |-> [min_similarity |-> 5000, csv_export |-> 5000, claude_analysis |-> 5500],
     strict   |-> [min_similarity |-> 6500, csv_export |-> 6000, claude_analysis |-> 7000]]

\* A lookup whose default is the moderate entry.
GetStrictnessThresholds_DefaultModerate(strictness) ==
    IF strictness \in DOMAIN StrictnessThresholds
    THEN StrictnessThresholds[strictness]
    ELSE StrictnessThresholds["moderate"]

\* thresholds.get(strictness, thresholds['lenient'])
GetStrictnessThresholds(strictness) ==
    IF strictness \in DOMAIN StrictnessThresholds
    THEN StrictnessThresholds[strictness]
    ELSE StrictnessThresholds["lenient"]

(***************************************************************************)
(* agent/agent.py: the reply of the reasoning collaborator                 *)
(***************************************************************************)

\* A reply is a text over the characters "{", "}" and "x" (any other character)
\* and symbols that each stand for a JSON member "duplicate_groups": [...]:
\*   g  [{"pair_id": 1, "classification": "TRUE DUPLICATE"}]
\*   e  []
\*   z  [{"pair_id": 0, ...}]
\*   n  [{"pair_id": -1, ...}]
\*   r  [{"pair_id": 1, ...}, {"pair_id": 1, ...}]
\*   t  [{"pair_id": 2, ...}]
\*   o  [{"pair_id": 21, ...}]
\* The only texts over these symbols that json.loads accepts are {} and a member
\* between braces.
JsonMembers ==
    [g |-> [duplicate_groups |->
               << [pair_id |-> 1, classification |-> "TRUE DUPLICATE"] >>],
     e |-> [duplicate_groups |-> <<>>],
     z |-> [duplicate_groups |->
               << [pair_id |-> 0, classification |-> "OVERLAPPING"] >>],
     n |-> [duplicate_groups |->
               << [pair_id |-> 0 - 1, classification |-> "OVERLAPPING"] >>],
     r |-> [duplicate_groups |->
               << [pair_id |-> 1, classification |-> "TRUE DUPLICATE"],
                  [pair_id |-> 1, classification |-> "DISTINCT"] >>],
     t |-> [duplicate_groups |->
               << [pair_id |-> 2, classification |-> "DISTINCT"] >>],
     o |-> [duplicate_groups |->
               << [pair_id |-> 21, classification |-> "DISTINCT"] >>]]

\* str.find(c): the least 0-based index of c in text, -1 when c does not occur.
Find(text, c) ==
    IF \E i \in 1..Len(text) : text[i] = c
    THEN (CHOOSE i \in 1..Len(text) : text[i] = c /\ \A j \in 1..(i - 1) : text[j] # c) - 1
    ELSE 0 - 1

\* str.rfind(c): the greatest 0-based index of c in text, -1 when c does not occur.
RFind(text, c) ==
    IF \E i \in 1..Len(text) : text[i] = c
    THEN (CHOOSE i \in 1..Len(text) :
             text[i] = c /\ \A j \in (i + 1)..Len(text) : text[j] # c) - 1
    ELSE 0 - 1

\* json.loads(json_str): the dictionary parsed, as a function from keys to
\* values, or a JSONDecodeError.
JsonLoads(json_str) ==
    IF json_str = <<"{", "}">>
    THEN [error |-> FALSE, value |-> [k \in {} |-> <<>>]]
    ELSE IF Len(json_str) = 3 /\ json_str[1] = "{" /\ json_str[3] = "}"
            /\ json_str[2] \in DOMAIN JsonMembers
    THEN [error |-> FALSE, value |-> JsonMembers[json_str[2]]]
    ELSE [error |-> TRUE, value |-> [k \in {} |-> <<>>]]

\* The try block shared by analyze_bug_with_claude and
\* detect_duplicates_with_claude: the text from the first "{" to the last "}" is
\* parsed.  outcome is "parsed", "no_json" (no such text) or "decode_error".
\* This variant parses the whole reply instead.
ParseReply_WholeText(response_text) ==
    IF JsonLoads(response_text).error
    THEN [outcome |-> "decode_error", value |-> [k \in {} |-> <<>>]]
    ELSE [outcome |-> "parsed", value |-> JsonLoads(response_text).value]

ParseReply(response_text) ==
    LET start_idx == Find(response_text, "{")
        end_idx   == RFind(response_text, "}") + 1
    IN  IF start_idx # 0 - 1 /\ end_idx > start_idx
        THEN IF JsonLoads(SubSeq(response_text, start_idx + 1, end_idx)).error
             THEN [outcome |-> "decode_error", value |-> [k \in {} |-> <<>>]]
             ELSE [outcome |-> "parsed",
                   value   |-> JsonLoads(SubSeq(response_text, start_idx + 1, end_idx)).value]
        ELSE [outcome |-> "no_json", value |-> [k \in {} |-> <<>>]]

\* The structured response built from a reply that could not be parsed.
FallbackAnalysis(response_text) ==
    [related_tests     |-> <<>>,
     suggested_updates |-> <<>>,
     new_test_cases    |-> <<>>,
     duplicate_tests   |-> <<>>,
     raw_response      |-> response_text]

\* An analysis that hands back whatever was parsed, and an empty dictionary for
\* a reply that could not be parsed.
AnalyzeBugWithClaude_NoFallback(response_text) == ParseReply(response_text).value

\* TestCaseAgent.analyze_bug_with_claude: the dictionary returned for the reply
\* of the collaborator.
AnalyzeBugWithClaude(response_text) ==
    IF ParseReply(response_text).outcome = "parsed"
    THEN ParseReply(response_text).value
    ELSE FallbackAnalysis(response_text)

(***************************************************************************)
(* agent/agent.py: TestCaseAgent.detect_duplicates_with_claude             *)
(***************************************************************************)

\* The embedding stored for the id of the record at position i: that of the
\* last record of the list with this id (agent.py:424-426 overwrite the entry).
EmbeddingOfId(i, tcs, cache) ==
    cache[CombinedText(tcs[CHOOSE l \in i..Len(tcs) :
                              /\ tcs[l].id = tcs[i].id
                              /\ \A m \in (l + 1)..Len(tcs) : tcs[m].id # tcs[i].id])]

\* list(tc_embeddings.keys()) with what the loop reads for each id: the ids of
\* the list, each once, in the order of their first occurrence, with the first
\* record of that id (next(tc for tc in test_cases if tc['id'] == id)) and the
\* embedding stored for the id.
RECURSIVE TestIdsFrom(_, _, _)
TestIdsFrom(i, tcs, cache) ==
    IF i > Len(tcs) THEN <<>>
    ELSE (IF \E j \in 1..(i - 1) : tcs[j].id = tcs[i].id
          THEN <<>>
          ELSE << [id |-> tcs[i].id, tc |-> tcs[i],
                   embedding |-> EmbeddingOfId(i, tcs, cache)] >>)
         \o TestIdsFrom(i + 1, tcs, cache)

\* The entry appended for two ids whose embeddings have the given similarity.
PairEntry(tc1, tc2, similarity, similarity_threshold) ==
    IF similarity >= similarity_threshold
    THEN << [test_case_1 |-> tc1, test_case_2 |-> tc2, similarity_score |-> similarity] >>
    ELSE <<>>

\* The double loop over test_ids, from the pair (i, j) on.
RECURSIVE PairsFrom(_, _, _, _)
PairsFrom(i, j, test_ids, similarity_threshold) ==
    IF i > Len(test_ids) THEN <<>>
    ELSE IF j > Len(test_ids)
         THEN PairsFrom(i + 1, i + 2, test_ids, similarity_threshold)
         ELSE PairEntry(test_ids[i].tc, test_ids[j].tc,
                        Cosines[test_ids[i].embedding, test_ids[j].embedding],
                        similarity_threshold)
              \o PairsFrom(i, j + 1, test_ids, similarity_threshold)

\* potential_duplicates before the sort, for a list of at least 2 records whose
\* texts are all in the cache.
PotentialDuplicates(tcs, cache, similarity_threshold) ==
    PairsFrom(1, 2, TestIdsFrom(1, tcs, cache), similarity_threshold)

\* The greatest similarity_score of a non-empty list of pairs.
MaxPairScore(pairs) ==
    CHOOSE x \in {pairs[n].similarity_score : n \in 1..Len(pairs)} :
        \A n \in 1..Len(pairs) : pairs[n].similarity_score <= x

\* potential_duplicates.sort(key=lambda x: x['similarity_score'], reverse=True):
\* a stable sort, so the pairs of the greatest score come first in their order,
\* then the sorted rest.
RECURSIVE SortPairs(_)
SortPairsTop(pairs, top) ==
    SelectSeq(pairs, LAMBDA e : e.similarity_score = top)
    \o SortPairs(SelectSeq(pairs, LAMBDA e : e.similarity_score # top))

SortPairs(pairs) ==
    IF pairs = <<>> THEN <<>> ELSE SortPairsTop(pairs, MaxPairScore(pairs))

\* The most pairs handed to the collaborator.
MaxForwardedPairs == 20

\* The sorted pairs without the cut.
CapPairs_NoCut(potential_duplicates) == SortPairs(potential_duplicates)

\* The pairs handed to the collaborator: sorted, then potential_duplicates[:20].
CapPairs(potential_duplicates) ==
    SliceTo(SortPairs(potential_duplicates), MaxForwardedPairs)

\* claude_analysis.get('duplicate_groups', [])
DuplicateGroups(claude_analysis) ==
    IF "duplicate_groups" \in DOMAIN claude_analysis
    THEN claude_analysis["duplicate_groups"]
    ELSE <<>>

\* potential_duplicates[k] for a 0-based index k that may be negative.
PairAt(pairs, k) == IF k >= 0 THEN pairs[k + 1] ELSE pairs[Len(pairs) + k + 1]

\* `if pair_id and pair_id <= len(potential_duplicates)`
GroupIsEnriched(group, pairs) == group.pair_id # 0 /\ group.pair_id <= Len(pairs)

\* The entry appended to enriched_groups for a group of the reply.
EnrichedGroup(group, pairs) ==
    [pair_id          |-> group.pair_id,
     classification   |-> group.classification,
     test_case_1_id   |-> PairAt(pairs, group.pair_id - 1).test_case_1.id,
     test_case_2_id   |-> PairAt(pairs, group.pair_id - 1).test_case_2.id,
     similarity_score |-> PairAt(pairs, group.pair_id - 1).similarity_score]

RECURSIVE EnrichedGroups(_, _)
EnrichedGroups(groups, pairs) ==
    IF groups = <<>> THEN <<>>
    ELSE (IF GroupIsEnriched(Head(groups), pairs)
          THEN << EnrichedGroup(Head(groups), pairs) >>
          ELSE <<>>)
         \o EnrichedGroups(Tail(groups), pairs)

\* return enriched_groups if enriched_groups else duplicate_groups
EnrichedOrReplied(enriched_groups, duplicate_groups) ==
    IF enriched_groups # <<>> THEN enriched_groups ELSE duplicate_groups

\* The enrichment loop raises IndexError for the reply: it was parsed and
\* potential_duplicates[pair_id - 1] has, for a group that passes the guard, an
\* index that is negative beyond the length of the list.
RaisesIndexError(pairs, reply) ==
    /\ reply.outcome = "parsed"
    /\ \E n \in 1..Len(DuplicateGroups(reply.value)) :
          /\ GroupIsEnriched(DuplicateGroups(reply.value)[n], pairs)
          /\ DuplicateGroups(reply.value)[n].pair_id - 1 < 0 - Len(pairs)

\* A classification that returns nothing for a reply that could not be parsed.
ClassifiedPairs_NoFallback(pairs, reply) ==
    IF reply.outcome = "parsed"
    THEN EnrichedOrReplied(EnrichedGroups(DuplicateGroups(reply.value), pairs),
                           DuplicateGroups(reply.value))
    ELSE <<>>

\* What detect_duplicates_with_claude returns once it has the reply (as
\* ParseReply gives it) for the pairs it handed over: the enriched groups, the
\* groups as replied when none was enriched, or the pairs themselves when the
\* reply could not be parsed.
ClassifiedPairs(pairs, reply) ==
    IF reply.outcome = "parsed"
    THEN EnrichedOrReplied(EnrichedGroups(DuplicateGroups(reply.value), pairs),
                           DuplicateGroups(reply.value))
    ELSE pairs

\* The outcome of detect_duplicates_with_claude for the pairs found and the
\* pairs handed to the collaborator (none when no pair was found: the
\* collaborator is not called), with the list returned; raised tells that
\* IndexError left the call instead (only json.JSONDecodeError is caught) and
\* nothing was returned.
DuplicatesOutcome(potential_duplicates, forwarded, response_text) ==
    [potential_duplicates |-> potential_duplicates,
     forwarded            |-> forwarded,
     called               |-> potential_duplicates # <<>>,
     raised               |-> potential_duplicates # <<>>
                              /\ RaisesIndexError(forwarded, ParseReply(response_text)),
     result               |-> IF potential_duplicates # <<>>
                                 /\ ~RaisesIndexError(forwarded, ParseReply(response_text))
                              THEN ClassifiedPairs(forwarded, ParseReply(response_text))
                              ELSE <<>>]

\* The part of detect_duplicates_with_claude after the double loop.
DuplicatesFor(potential_duplicates, response_text) ==
    DuplicatesOutcome(potential_duplicates, CapPairs(potential_duplicates),
                      response_text)

\* TestCaseAgent.detect_duplicates_with_claude for a list whose texts are all in
\* the cache (a list of fewer than 2 records is returned for at once).
DetectDuplicatesWithClaude(tcs, similarity_threshold, cache, response_text) ==
    IF Len(tcs) < 2
    THEN DuplicatesFor(<<>>, response_text)
    ELSE DuplicatesFor(PotentialDuplicates(tcs, cache, similarity_threshold),
                       response_text)

(***************************************************************************)
(* agent/agent.py: TestCaseAgent.analyze_bug_report                        *)
(***************************************************************************)

\* similarity_threshold=None
NoThreshold == 0 - 1

\* The default similarity_threshold of detect_duplicates_with_claude: 0.90.
DefaultDuplicateThreshold == 9000

\* The most candidates handed to the collaborator when none reaches the
\* reasoning-call threshold.
MaxFallbackTests == 5

\* [(tc, score) for tc, score in similar_tests if score >= claude_threshold]
AboveThreshold(similar_tests, threshold) ==
    SelectSeq(similar_tests, LAMBDA e : e.similarity_score >= threshold)

\* A selection without the replacement for an empty one.
HighConfidenceTests_NoFallback(similar_tests, claude_threshold) ==
    AboveThreshold(similar_tests, claude_threshold)

\* high_confidence_tests: the candidates at or above the reasoning-call
\* threshold, or the first 5 candidates at most when there is none.
HighConfidenceTests(similar_tests, claude_threshold) ==
    IF AboveThreshold(similar_tests, claude_threshold) # <<>>
    THEN AboveThreshold(similar_tests, claude_threshold)
    ELSE IF similar_tests # <<>>
         THEN SliceTo(similar_tests, Min(MaxFallbackTests, Len(similar_tests)))
         ELSE <<>>

\* The threshold handed to export_results_to_csv.
ExportThreshold(similarity_threshold, thresholds) ==
    IF similarity_threshold = NoThreshold
    THEN thresholds.min_similarity
    ELSE similarity_threshold

\* The rows export_results_to_csv writes: the candidates that are not below the
\* threshold, in order.
CsvRows(similar_tests, similarity_threshold) ==
    SelectSeq(similar_tests, LAMBDA e : ~(e.similarity_score < similarity_threshold))

\* A result for an empty list that carries no error field.
NoTestCasesResult_NoError ==
    [error              |-> FALSE,
     similar_tests      |-> <<>>,
     claude_analysis    |-> [k \in {} |-> <<>>],
     duplicate_analysis |-> <<>>,
     summary            |-> [total_test_cases_analyzed  |-> 0,
                             similar_tests_found        |-> 0,
                             potential_duplicates_found |-> 0]]

\* The result returned when no test case is loaded.
NoTestCasesResult ==
    [error              |-> TRUE,
     similar_tests      |-> <<>>,
     claude_analysis    |-> [k \in {} |-> <<>>],
     duplicate_analysis |-> <<>>,
     summary            |-> [total_test_cases_analyzed  |-> 0,
                             similar_tests_found        |-> 0,
                             potential_duplicates_found |-> 0]]

\* similar_tests of the results: the records at the ranked positions of the
\* list with their scores.
SimilarTests(tcs, ranked) ==
    [n \in 1..Len(ranked) |->
        [test_case |-> tcs[ranked[n].pos], similarity_score |-> ranked[n].score]]

\* [tc for tc, _ in similar_tests]
TestCasesOf(similar_tests) ==
    [n \in 1..Len(similar_tests) |-> similar_tests[n].test_case]

\* The results of analyze_bug_report from step 2 on, for the candidates ranked:
\* what is handed to the collaborator, the two analyses, the summary and the
\* rows exported (csv_path is None when there is no row or no export).  raised
\* tells that step 4 raised IndexError, which analyze_bug_report does not catch:
\* nothing is returned then.
AnalysisResult(tcs, similar_tests, duplicates, thresholds, strictness, output_format, similarity_threshold, analysis_reply) ==
    [error                 |-> FALSE,
     raised                |-> duplicates.raised,
     similar_tests         |-> similar_tests,
     high_confidence_tests |-> HighConfidenceTests(similar_tests,
                                                   thresholds.claude_analysis),
     claude_analysis       |-> AnalyzeBugWithClaude(analysis_reply),
     duplicates            |-> duplicates,
     duplicate_analysis    |-> duplicates.result,
     summary               |->
        [total_test_cases_analyzed      |-> Len(tcs),
         similar_tests_found            |-> Len(similar_tests),
         high_confidence_tests_analyzed |->
            Len(HighConfidenceTests(similar_tests, thresholds.claude_analysis)),
         potential_duplicates_found     |-> Len(duplicates.result),
         strictness_level               |-> strictness,
         thresholds_used                |-> thresholds],
     exported              |-> output_format = "csv",
     csv_rows              |-> IF output_format = "csv"
                               THEN CsvRows(similar_tests,
                                            ExportThreshold(similarity_threshold,
                                                            thresholds))
                               ELSE <<>>]

\* Steps 1 to 4 of analyze_bug_report for a non-empty list whose texts and bug
\* text are all in the cache.
AnalyzeLoaded(tcs, cache, similar_tests, strictness, output_format, similarity_threshold, analysis_reply, duplicates_reply) ==
    AnalysisResult(tcs, similar_tests,
                   DetectDuplicatesWithClaude(TestCasesOf(similar_tests),
                                              DefaultDuplicateThreshold, cache,
                                              duplicates_reply),
                   GetStrictnessThresholds(strictness), strictness, output_format,
                   similarity_threshold, analysis_reply)

(***************************************************************************)
(* State machine of the agent with its MCP server                          *)
(***************************************************************************)

\* TestCaseAgent.detect_and_load_test_cases (use_mcp is True)
detect_and_load_test_cases(bug_description, repro_steps, force_all) ==
    LET load == DetectAndLoad(bug_description, repro_steps, force_all)
    IN  /\ test_cases' = load.test_cases
        /\ ret' = [op               |-> "detect_and_load_test_cases",
                   bug_description  |-> bug_description,
                   repro_steps      |-> repro_steps,
                   force_all        |-> force_all,
                   detection        |-> load.detection,
                   areas_loaded     |-> load.areas_loaded,
                   test_cases_count |-> load.test_cases_count,
                   recommendation   |-> load.recommendation]
        /\ UNCHANGED embeddings_cache

\* The loader of the agent: detection and load for every pair of texts.
NextLoad ==
    \E d \in DetectTexts, s \in DetectTexts, force_all \in BOOLEAN :
        detect_and_load_test_cases(d, s, force_all)

SpecLoad == Init /\ [][NextLoad]_vars

\* The file uploaded between analyses: two records.
Uploads == { <<TC_B, TC_C>> }

\* The list analyze_bug_report works on after its auto-load step.
AutoLoaded(tcs, bug_description, repro_steps, auto_load) ==
    IF auto_load /\ Len(tcs) = 0
    THEN DetectAndLoad(bug_description, repro_steps, FALSE).test_cases
    ELSE tcs

\* The calls of the reasoning collaborator in steps 3 and 4: one by
\* analyze_bug_with_claude, one by detect_duplicates_with_claude when it found a
\* pair.
CollaboratorCalls(result) == IF result.duplicates.called THEN 2 ELSE 1

\* TestCaseAgent.analyze_bug_report (use_mcp is True).  The two replies are those
\* of the reasoning collaborator to the analysis prompt and to the duplicates
\* prompt.  ret records the list ranked, the texts sent to the embedding
\* provider, the number of calls of the collaborator and the result.
analyze_bug_report(bug_description, repro_steps, top_k, auto_load, output_format, similarity_threshold, strictness, apply_area_boost, analysis_reply, duplicates_reply) ==
    \E tcs \in {AutoLoaded(test_cases, bug_description, repro_steps, auto_load)} :
        IF Len(tcs) = 0
        THEN /\ test_cases' = tcs
             /\ ret' = [op              |-> "analyze_bug_report",
                        bug_description |-> bug_description,
                        repro_steps     |-> repro_steps,
                        auto_load       |-> auto_load,
                        output_format   |-> output_format,
                        strictness      |-> strictness,
                        analysis_reply  |-> analysis_reply,
                        duplicates_reply |-> duplicates_reply,
                        loaded_before   |-> test_cases,
                        ranked_against  |-> tcs,
                        encoded         |-> {},
                        collaborator_calls |-> 0,
                        result          |-> NoTestCasesResult]
             /\ UNCHANGED embeddings_cache
        ELSE \E bug_text \in {JoinSpace(bug_description, repro_steps)} :
             \E missing \in {({bug_text} \cup {CombinedText(tcs[i]) : i \in 1..Len(tcs)})
                                 \ DOMAIN embeddings_cache} :
             \E encoded \in [missing -> AnalysisVectors] :
             \E cache \in {embeddings_cache @@ encoded} :
             \E ranked \in {RankScored(tcs,
                                       ScoreAll(tcs, cache, bug_text, apply_area_boost),
                                       top_k,
                                       GetStrictnessThresholds(strictness).min_similarity)} :
             \E result \in {AnalyzeLoaded(tcs, cache, SimilarTests(tcs, ranked), strictness,
                                          output_format, similarity_threshold,
                                          analysis_reply, duplicates_reply)} :
                 /\ test_cases' = tcs
                 /\ embeddings_cache' = cache
                 /\ ret' = [op              |-> "analyze_bug_report",
                            bug_description |-> bug_description,
                            repro_steps     |-> repro_steps,
                            auto_load       |-> auto_load,
                            output_format   |-> output_format,
                            strictness      |-> strictness,
                            analysis_reply  |-> analysis_reply,
                            duplicates_reply |-> duplicates_reply,
                            loaded_before   |-> test_cases,
                            ranked_against  |-> tcs,
                            encoded         |-> missing,
                            collaborator_calls |-> CollaboratorCalls(result),
                            result          |-> result]

\* The API's shared agent: uploads and analyses in any order, at every
\* strictness level.
NextAnalyze ==
    \/ \E rows \in Uploads : load_test_cases_from_csv(rows)
    \/ \E d \in AnalysisDescriptions, s \in ReproSteps, auto_load \in BOOLEAN,
          output_format \in {"dict", "csv"}, strictness \in StrictnessLevels :
          analyze_bug_report(d, s, 20, auto_load, output_format, NoThreshold,
                             strictness, TRUE, <<"{", "}">>, <<"{", "g", "}">>)

SpecAnalyze == Init /\ [][NextAnalyze]_vars

(***************************************************************************)
(* State machine of the duplicate detector and the collaborator's replies  *)
(***************************************************************************)

\* TestCaseAgent.detect_duplicates_with_claude with test_cases=None: the loaded
\* list is analysed.  get_embedding asks the provider for each text that is not
\* cached yet; a list of fewer than 2 records returns before any embedding.
detect_duplicates_with_claude(similarity_threshold, response_text) ==
    IF Len(test_cases) < 2
    THEN /\ ret' = [op                   |-> "detect_duplicates_with_claude",
                    test_cases           |-> test_cases,
                    similarity_threshold |-> similarity_threshold,
                    duplicates_reply     |-> response_text,
                    encoded              |-> {},
                    duplicates           |->
                        DetectDuplicatesWithClaude(test_cases, similarity_threshold,
                                                   embeddings_cache, response_text)]
         /\ UNCHANGED <<test_cases, embeddings_cache>>
    ELSE \E missing \in {{CombinedText(test_cases[i]) : i \in 1..Len(test_cases)}
                            \ DOMAIN embeddings_cache} :
         \E encoded \in [missing -> DuplicateVectors] :
         \E cache \in {embeddings_cache @@ encoded} :
             /\ embeddings_cache' = cache
             /\ ret' = [op                   |-> "detect_duplicates_with_claude",
                        test_cases           |-> test_cases,
                        similarity_threshold |-> similarity_threshold,
                        duplicates_reply     |-> response_text,
                        encoded              |-> missing,
                        duplicates           |->
                            DetectDuplicatesWithClaude(test_cases, similarity_threshold,
                                                       cache, response_text)]
             /\ UNCHANGED test_cases

\* The API's shared agent serving /detect-duplicates and /analyze: uploads,
\* duplicate detection and analyses, under every reply of the collaborator.
NextDup ==
    \/ \E rows \in DuplicateFiles : load_test_cases_from_csv(rows)
    \/ \E similarity_threshold \in DuplicateThresholds, reply \in Replies \cup RepliesPairIds :
          detect_duplicates_with_claude(similarity_threshold, reply)
    \/ \E reply \in Replies, same \in BOOLEAN :
          analyze_bug_report(<<"b","i","l","l","i","n","g">>, <<>>, 20, TRUE, "dict", NoThreshold, "lenient",
                             TRUE, reply, IF same THEN reply ELSE <<"{", "g", "}">>)

SpecDup == Init /\ [][NextDup]_vars

(***************************************************************************)
(* State machine of the MCP server                                         *)
(***************************************************************************)

\* TestCaseServer._load_all_test_cases, for the source files of two areas (the
\* files of the other areas are empty).  ret records the cache built.
load_all_test_cases(billing_source, other_source) ==
    /\ ret' = [op               |-> "load_all_test_cases",
               sources          |-> [a \in {CSV_FILE_MAPPING[i] : i \in 1..Len(CSV_FILE_MAPPING)} |->
                                        IF a = "Billing" THEN billing_source
                                        ELSE IF a = "Expert Disbursements" THEN other_source
                                        ELSE <<>>],
               test_cases_cache |->
                   LoadAllTestCases(
                       [a \in {CSV_FILE_MAPPING[i] : i \in 1..Len(CSV_FILE_MAPPING)} |->
                           IF a = "Billing" THEN billing_source
                           ELSE IF a = "Expert Disbursements" THEN other_source
                           ELSE <<>>])]
    /\ UNCHANGED <<test_cases, embeddings_cache>>

\* TestCaseServer.search_by_area
search_by_area(area_names, limit, state_filter) ==
    /\ ret' = [op           |-> "search_by_area",
               area_names   |-> area_names,
               limit        |-> limit,
               state_filter |-> state_filter,
               result       |-> SearchByAreaWith(area_names, limit, state_filter)]
    /\ UNCHANGED <<test_cases, embeddings_cache>>

NextServer ==
    \/ \E billing_source \in Sources, other_source \in OtherSources :
          load_all_test_cases(billing_source, other_source)
    \/ \E area_names \in SearchedAreas, limit \in Limits, state_filter \in StateFilters :
          search_by_area(area_names, limit, state_filter)

SpecServer == Init /\ [][NextServer]_vars

(***************************************************************************)
(* api.py: extract_bug_id_from_text                                        *)
(***************************************************************************)

\* The characters of the texts searched for a bug id: '#', two digits and a
\* letter.
BugIdChars == {"#", "1", "2", "a"}

\* The longest text searched.
MaxTextLen == 5

\* The text argument: None or a string.
BugIdTexts ==
    {None} \cup {Some(t) : t \in UNION {[1..n -> BugIdChars] : n \in 0..MaxTextLen}}

\* \d
IsDigit(c) == c \in {"0", "1", "2", "3", "4", "5", "6", "7", "8", "9"}

\* The least number of digits of a bug id: the 3 of \d{3,}.
MinBugIdDigits == 3

\* A pattern that takes a single digit after '#'.
MatchesAt_OneDigit(text, i) ==
    /\ text[i] = "#"
    /\ i + 1 <= Len(text)
    /\ IsDigit(text[i + 1])

\* The pattern #(\d{3,}) matches at position i.
MatchesAt(text, i) ==
    /\ text[i] = "#"
    /\ i + MinBugIdDigits <= Len(text)
    /\ \A k \in 1..MinBugIdDigits : IsDigit(text[i + k])

\* The end of the group of a match at position i: \d{3,} is greedy and takes
\* every digit that follows.
RECURSIVE GroupEnd(_, _)
GroupEnd(text, j) ==
    IF j + 1 <= Len(text) /\ IsDigit(text[j + 1]) THEN GroupEnd(text, j + 1) ELSE j

\* re.findall(pattern, text)[0] searched from position i on, None without match.
RECURSIVE FirstMatchFrom(_, _)
FirstMatchFrom(text, i) ==
    IF i > Len(text) THEN None
    ELSE IF MatchesAt(text, i)
         THEN Some(SubSeq(text, i + 1, GroupEnd(text, i + 1)))
         ELSE FirstMatchFrom(text, i + 1)

\* extract_bug_id_from_text: `if not text` is true for None and for ''.
ExtractBugIdFromText(text) ==
    IF text = None \/ text[1] = <<>> THEN None
    ELSE FirstMatchFrom(text[1], 1)

(***************************************************************************)
(* State machine of the bug id extraction                                  *)
(***************************************************************************)

extract_bug_id_from_text(text) ==
    /\ ret' = [op     |-> "extract_bug_id_from_text",
               text   |-> text,
               result |-> ExtractBugIdFromText(text)]
    /\ UNCHANGED <<test_cases, embeddings_cache>>

NextExtract == \E text \in BugIdTexts : extract_bug_id_from_text(text)

SpecExtract == Init /\ [][NextExtract]_vars

(***************************************************************************)
(* agent/agent.py: TestCaseAgent.get_embedding                             *)
(***************************************************************************)

\* The texts get_embedding is called with: those of two rows and of a query.
EmbedTexts == {CombinedText(TC_A), CombinedText(TC_B), JoinSpace(QueryInvoice, <<>>)}

\* A get_embedding that asks the provider at every call and stores the answer.
GetEmbedding_NoCacheCheck(cache, text, encoded) ==
    [embedding       |-> encoded,
     embeddings_cache |-> (text :> encoded) @@ cache,
     provider_called |-> TRUE]

\* get_embedding for a cache and the vector the provider would return: the
\* vector returned, the cache afterwards and whether the provider was asked.
GetEmbedding(cache, text, encoded) ==
    IF text \in DOMAIN cache
    THEN [embedding        |-> cache[text],
          embeddings_cache |-> cache,
          provider_called  |-> FALSE]
    ELSE [embedding        |-> encoded,
          embeddings_cache |-> (text :> encoded) @@ cache,
          provider_called  |-> TRUE]

\* TestCaseAgent.get_embedding
get_embedding(text) ==
    \E encoded \in Vectors :
        /\ embeddings_cache' = GetEmbedding(embeddings_cache, text, encoded).embeddings_cache
        /\ ret' = [op              |-> "get_embedding",
                   text            |-> text,
                   provider_called |->
                       GetEmbedding(embeddings_cache, text, encoded).provider_called,
                   result          |-> GetEmbedding(embeddings_cache, text, encoded).embedding]
        /\ UNCHANGED test_cases

\* One agent serving get_embedding and rankings, which embed through the same
\* cache.
NextEmbed ==
    \/ \E text \in EmbedTexts : get_embedding(text)
    \/ \E rows \in {<<TC_A, TC_B>>} : load_test_cases_from_csv(rows)
    \/ \E min_similarity \in MinSimilarities :
          find_similar_test_cases(QueryInvoice, <<>>, 2, min_similarity, TRUE)

SpecEmbed == Init /\ [][NextEmbed]_vars

(***************************************************************************)
(* agent/agent.py: a ranking call with the list replaced by another thread *)
(***************************************************************************)

\* find_similar_test_cases reads self.test_cases twice: compute_test_case_embeddings
\* iterates the list object it finds at line 245, the scoring loop the one it
\* finds at line 282.  Between the two reads the call is in progress: ret is then
\* the frame of the call, with pc = "scoring_pass".

\* Lines 269-276 of find_similar_test_cases: the embedding of the bug text and
\* compute_test_case_embeddings over the list loaded at that moment.
embedding_pass(bug_description, repro_steps, top_k, min_similarity, apply_area_boost) ==
    /\ ~(ret.op = "find_similar_test_cases" /\ ret.pc = "scoring_pass")
    /\ \E missing \in {({JoinSpace(bug_description, repro_steps)}
                        \cup {CombinedText(test_cases[i]) : i \in 1..Len(test_cases)})
                            \ DOMAIN embeddings_cache} :
       \E encoded \in [missing -> Vectors] :
          /\ embeddings_cache' = embeddings_cache @@ encoded
          /\ ret' = [op               |-> "find_similar_test_cases",
                     pc               |-> "scoring_pass",
                     bug_text         |-> JoinSpace(bug_description, repro_steps),
                     top_k            |-> top_k,
                     min_similarity   |-> min_similarity,
                     apply_area_boost |-> apply_area_boost,
                     embedded_list    |-> test_cases,
                     bug_embedding    |->
                         (embeddings_cache @@ encoded)[JoinSpace(bug_description, repro_steps)],
                     tc_embeddings    |->
                         ComputeTestCaseEmbeddings(test_cases, embeddings_cache @@ encoded)]
    /\ UNCHANGED test_cases

\* Lines 279-306 of find_similar_test_cases: the scoring loop over
\* self.test_cases, the sort and the cut; a KeyError of tc_embeddings[tc['id']]
\* leaves the call.
scoring_pass ==
    /\ ret.op = "find_similar_test_cases"
    /\ ret.pc = "scoring_pass"
    /\ LET tcs == test_cases
       IN  ret' = IF \E n \in 1..Len(tcs) : tcs[n].id \notin DOMAIN ret.tc_embeddings
                  THEN [op            |-> "find_similar_test_cases",
                        pc            |-> "raised",
                        bug_text      |-> ret.bug_text,
                        embedded_list |-> ret.embedded_list,
                        scored_list   |-> tcs,
                        tc_embeddings |-> ret.tc_embeddings,
                        error         |-> "KeyError"]
                  ELSE [op            |-> "find_similar_test_cases",
                        pc            |-> "returned",
                        bug_text      |-> ret.bug_text,
                        embedded_list |-> ret.embedded_list,
                        scored_list   |-> tcs,
                        tc_embeddings |-> ret.tc_embeddings,
                        scored        |->
                            ScoreLoop(1, tcs, ret.bug_embedding, ret.tc_embeddings,
                                      ret.bug_text, ret.apply_area_boost),
                        result        |->
                            RankScored(tcs,
                                       ScoreLoop(1, tcs, ret.bug_embedding,
                                                 ret.tc_embeddings, ret.bug_text,
                                                 ret.apply_area_boost),
                                       ret.top_k, ret.min_similarity)]
    /\ UNCHANGED <<test_cases, embeddings_cache>>

\* load_test_cases_from_csv on another thread: self.test_cases = test_cases.  ret
\* stays the frame of the ranking thread; the load's own return value is kept
\* beside it.
load_test_cases_from_csv_on_other_thread(rows) ==
    /\ test_cases' = rows
    /\ ret' = ("other_thread" :> [op |-> "load_test_cases_from_csv", test_cases |-> rows]) @@ ret
    /\ UNCHANGED embeddings_cache

\* detect_and_load_test_cases on another thread:
\* self.test_cases = search_result['test_cases'].
detect_and_load_test_cases_on_other_thread(bug_description, repro_steps, force_all) ==
    /\ test_cases' = DetectAndLoad(bug_description, repro_steps, force_all).test_cases
    /\ ret' = ("other_thread" :> [op |-> "detect_and_load_test_cases",
                                  test_cases_count |->
                                      DetectAndLoad(bug_description, repro_steps,
                                                    force_all).test_cases_count]) @@ ret
    /\ UNCHANGED embeddings_cache

\* One thread ranks, another replaces the list at any moment.
NextConcurrent ==
    \/ \E k \in TopKs, m \in MinSimilarities, b \in BOOLEAN :
          embedding_pass(QueryInvoice, <<>>, k, m, b)
    \/ scoring_pass
    \/ \E rows \in { <<>>, <<TC_A>>, <<TC_B>>, <<TC_A, TC_B>>, <<TC_B, TC_A>>, <<TC_C, TC_A>> } :
          load_test_cases_from_csv_on_other_thread(rows)
    \/ detect_and_load_test_cases_on_other_thread(<<"b","i","l","l","i","n","g">>, <<>>, FALSE)

SpecConcurrent == Init /\ [][NextConcurrent]_vars
(***************************************************************************)
(* Properties of find_similar_test_cases (checked under Spec)              *)
(***************************************************************************)

Ranked == ret.op = "find_similar_test_cases"

\* The positions of self.test_cases whose adjusted score passes the threshold t.
Qualifying(t) == {i \in 1..Len(test_cases) : ret.scored[i].score >= t}

\* The positions that rank ahead of position i: a higher score, or the same score
\* and an earlier place in the loaded list.
Ahead(i, t) ==
    {j \in Qualifying(t) :
        \/ ret.scored[j].score > ret.scored[i].score
        \/ ret.scored[j].score = ret.scored[i].score /\ j < i}

Positions(result) == {result[n].pos : n \in 1..Len(result)}

\* C1: find_similar_test_cases returns at most top_k candidates (top_k >= 1) and
\* the scores along the returned list are non-increasing.
C1_TopKBound ==
    Ranked =>
        /\ Len(ret.result) <= ret.top_k
        /\ \A n \in 1..(Len(ret.result) - 1) :
              ret.result[n].score >= ret.result[n + 1].score

\* C1 witness: top_k cuts the list (two records pass the threshold, one is
\* returned) and the one returned is the later, higher-scoring record.
C1_Witness ==
    /\ Ranked
    /\ ret.top_k = 1
    /\ Cardinality(Qualifying(ret.min_similarity)) = 2
    /\ Len(ret.result) = 1
    /\ ret.result[1].pos = 2
    /\ ret.scored[2].score > ret.scored[1].score

\* C2: the returned list is exactly the first top_k of the records whose adjusted
\* score is >= min_similarity, in descending order of score, records of equal
\* score in the order of the loaded list.  So every returned candidate passes the
\* threshold, and a record is absent only if it is below the threshold or at
\* least top_k qualifying records rank ahead of it.
C2_ExactTopK ==
    Ranked =>
        LET t == ret.min_similarity
            Q == Qualifying(t)
        IN  /\ Len(ret.result) = Min(ret.top_k, Cardinality(Q))
            /\ \A n \in 1..Len(ret.result) :
                  /\ ret.result[n].pos \in Q
                  /\ ret.result[n].score = ret.scored[ret.result[n].pos].score
                  /\ ret.result[n].score >= t
                  /\ Cardinality(Ahead(ret.result[n].pos, t)) = n - 1
            /\ \A i \in 1..Len(test_cases) :
                  i \notin Positions(ret.result) =>
                     \/ ret.scored[i].score < t
                     \/ Cardinality(Ahead(i, t)) >= ret.top_k

\* C2 witness: two records of equal score both pass the threshold and are
\* returned in the order of the loaded list.
C2_Witness ==
    /\ Ranked
    /\ Len(ret.result) = 2
    /\ ret.result[1].score = ret.result[2].score
    /\ ret.result[1].pos = 1
    /\ ret.result[2].pos = 2
    /\ test_cases[1] # test_cases[2]

\* C3: for the same query, loaded list, top_k and boost flag, the records returned
\* at a threshold t1 are a superset of those returned at any t2 > t1.
C3_ThresholdMonotone ==
    Ranked =>
        \A t \in MinSimilarities :
            LET other == RankScored(test_cases, ret.scored, ret.top_k, t)
            IN  /\ t < ret.min_similarity => Positions(ret.result) \subseteq Positions(other)
                /\ t > ret.min_similarity => Positions(other) \subseteq Positions(ret.result)

\* C3 witness: at the lower threshold two records qualify and top_k = 1 returns
\* one of them, the second of the list; at the higher threshold only that record
\* qualifies and is returned.
C3_Witness ==
    /\ Ranked
    /\ ret.top_k = 1
    /\ ret.min_similarity = 3500
    /\ Cardinality(Qualifying(3500)) = 2
    /\ Qualifying(9500) = {2}
    /\ Positions(ret.result) = {2}
    /\ Positions(RankScored(test_cases, ret.scored, 1, 9500)) = {2}

\* C4: the pre-boost score of every loaded record is the cosine similarity between
\* the query's vector and the vector of that record's own combined text (0.0 when
\* a norm is zero), also when two loaded records carry the same id.
C4_OwnTextCosine ==
    Ranked =>
        \A i \in 1..Len(test_cases) :
            ret.scored[i].pre =
                Cosine(embeddings_cache[ret.bug_text],
                       embeddings_cache[CombinedText(test_cases[i])])

\* The number of tokens of the record's area path (lower-cased, split on '\', '/'
\* and whitespace) that occur in the lower-cased bug text.
AreaTokenMatches(i) ==
    CountAreaMatches(AreaKeywords(Lower(test_cases[i].area)), Lower(ret.bug_text))

\* min(0.15, 0.08 * m) for m >= 1 matching tokens, -0.05 for none.
BoostLaw(m) == IF m >= 1 THEN Min(1500, 800 * m) ELSE 0 - 500

\* C5 as stated: with the boost enabled the adjustment of every record follows
\* BoostLaw, for every area string, the empty one included.
C5_AnyArea ==
    (Ranked /\ ret.apply_area_boost) =>
        \A i \in 1..Len(test_cases) :
            ret.scored[i].boost = BoostLaw(AreaTokenMatches(i))

\* C5 amended: the adjustment follows BoostLaw for every record whose area string
\* is not empty; a record with an empty (or missing) area gets no adjustment, 0.0.
C5_NonEmptyArea ==
    (Ranked /\ ret.apply_area_boost) =>
        \A i \in 1..Len(test_cases) :
            ret.scored[i].boost =
                IF test_cases[i].area = <<>> THEN 0
                ELSE BoostLaw(AreaTokenMatches(i))

\* C5 witness: one call in which a record with two matching area tokens gets the
\* capped boost 0.15 and a record with an empty area gets 0.0.
C5_Witness ==
    /\ Ranked
    /\ ret.apply_area_boost
    /\ Len(test_cases) = 2
    /\ AreaTokenMatches(1) = 2
    /\ ret.scored[1].boost = 1500
    /\ test_cases[2].area = <<>>
    /\ ret.scored[2].boost = 0

\* C6: the score after the area adjustment is at most 1.0 and is not lower than
\* the pre-boost cosine score by more than 0.05.
C6_BoostBounds ==
    (Ranked /\ ret.apply_area_boost) =>
        \A i \in 1..Len(test_cases) :
            /\ ret.scored[i].score <= Scale
            /\ ret.scored[i].score >= ret.scored[i].pre - 500

\* C6 witness: the cap binds for one record (cosine plus boost exceeds 1.0, the
\* score is 1.0) in a call with the boost enabled.
C6_Witness ==
    /\ Ranked
    /\ ret.apply_area_boost
    /\ \E i \in 1..Len(test_cases) :
          /\ ret.scored[i].pre + ret.scored[i].boost > Scale
          /\ ret.scored[i].score = Scale

\* The scenario of C7: the loaded list is record A (area Billing\Invoicing) and
\* record B (area Collections\Payor), the query is 'invoice generation fails',
\* the boost is enabled and both records are returned.
C7_Scenario(a, b) ==
    /\ Ranked
    /\ ret.apply_area_boost
    /\ ret.bug_text = JoinSpace(QueryInvoice, <<>>)
    /\ Len(test_cases) = 2
    /\ test_cases[a] = TC_A
    /\ test_cases[b] = TC_B
    /\ Positions(ret.result) = {a, b}

\* A is ranked above B in the returned list.
RankedAbove(a, b) ==
    \E m, n \in 1..Len(ret.result) :
        m < n /\ ret.result[m].pos = a /\ ret.result[n].pos = b

\* C7 as stated: in the scenario A is ranked above B whenever B's raw cosine
\* exceeds A's by a margin within 0.05-0.15.
C7_AreaBoostRanksAFirst ==
    \A a, b \in 1..2 :
        (/\ C7_Scenario(a, b)
         /\ ret.scored[b].pre - ret.scored[a].pre >= 500
         /\ ret.scored[b].pre - ret.scored[a].pre <= 1500)
        => RankedAbove(a, b)

\* C7 amended: in the scenario no token of either area occurs in the query, both
\* records get the same adjustment -0.05, and B is ranked above A whenever B's raw
\* cosine exceeds A's.
C7_SamePenaltyKeepsRawOrder ==
    \A a, b \in 1..2 :
        C7_Scenario(a, b) =>
            /\ ret.scored[a].boost = 0 - 500
            /\ ret.scored[b].boost = 0 - 500
            /\ ret.scored[b].pre > ret.scored[a].pre => RankedAbove(b, a)

\* C7 witness: the scenario with A first in the list and B's raw cosine higher
\* than A's by 0.064; B is returned first.
C7_Witness ==
    /\ C7_Scenario(1, 2)
    /\ ret.scored[2].pre - ret.scored[1].pre = 640
    /\ RankedAbove(2, 1)

(***************************************************************************)
(* Properties of detect_relevant_areas (checked under SpecDetect)          *)
(***************************************************************************)

Detected == ret.op = "detect_relevant_areas"

\* The number of keywords of an area that occur in the text of the latest call.
MatchesOf(area_name) == CountKeywordMatches(AREA_KEYWORDS[area_name], ret.combined_text)

AreaNames == {AreaOrder[i] : i \in 1..Len(AreaOrder)}

DetectedNames ==
    {ret.result.detected_areas[n].area_name : n \in 1..Len(ret.result.detected_areas)}

\* C8: every entry of detected_areas has matched_keywords >= 2; an area with 0 or
\* 1 matching keywords is not in detected_areas and is not top_area.
C8_KeywordFloor ==
    Detected =>
        /\ \A n \in 1..Len(ret.result.detected_areas) :
              ret.result.detected_areas[n].matched_keywords >= 2
        /\ \A a \in AreaNames :
              MatchesOf(a) < 2 => a \notin DetectedNames /\ ret.result.top_area # a

\* C8 witness: an area with exactly one matching keyword is left out while
\* another area is detected.
C8_Witness ==
    /\ Detected
    /\ \E a \in AreaNames : MatchesOf(a) = 1 /\ a \notin DetectedNames
    /\ ret.result.detected_areas # <<>>

\* The confidence the spec gives for m matched keywords.
ConfidenceTable(m) ==
    CASE m = 2 -> 3800 [] m = 3 -> 6300 [] m = 4 -> 9200 [] OTHER -> Scale

\* C9: the confidence of a detected area with m matched keywords is 0.38 for
\* m = 2, 0.63 for m = 3, 0.92 for m = 4 and 1.0 for m >= 5; a text with exactly 2
\* keywords of one area and none of any other yields exactly one detected area,
\* with confidence 0.38.
C9_Confidence ==
    Detected =>
        /\ \A n \in 1..Len(ret.result.detected_areas) :
              LET e == ret.result.detected_areas[n]
              IN  /\ e.matched_keywords = MatchesOf(e.area_name)
                  /\ e.confidence = ConfidenceTable(e.matched_keywords)
        /\ \A a \in AreaNames :
              (MatchesOf(a) = 2 /\ \A o \in AreaNames \ {a} : MatchesOf(o) = 0)
              => /\ Len(ret.result.detected_areas) = 1
                 /\ ret.result.detected_areas[1].area_name = a
                 /\ ret.result.detected_areas[1].confidence = 3800

\* C9 witness: a text with exactly 2 keywords of one area and none of any other.
C9_Witness ==
    /\ Detected
    /\ \E a \in AreaNames :
          MatchesOf(a) = 2 /\ \A o \in AreaNames \ {a} : MatchesOf(o) = 0
    /\ Len(ret.result.detected_areas) = 1

\* Reachable cases of C9: areas detected with 3, with 4 and with 5 or more
\* matched keywords.
C9_CaseThree ==
    Detected /\ \E n \in 1..Len(ret.result.detected_areas) :
                   ret.result.detected_areas[n].matched_keywords = 3
C9_CaseFour ==
    Detected /\ \E n \in 1..Len(ret.result.detected_areas) :
                   ret.result.detected_areas[n].matched_keywords = 4
C9_CaseCapped ==
    Detected /\ \E n \in 1..Len(ret.result.detected_areas) :
                   ret.result.detected_areas[n].matched_keywords >= 6

\* The place of an area in AREA_PRIORITY: 1 is the highest priority.
PriorityRank(area_name) == CHOOSE i \in 1..Len(AREA_PRIORITY) : AREA_PRIORITY[i] = area_name

\* C10: detected_areas is in descending order of (confidence, matched_keywords),
\* top_area is its first entry, and of two areas equal on both keys the one with
\* the higher priority in AREA_PRIORITY comes first.
C10_PriorityTieBreak ==
    Detected =>
        LET d == ret.result.detected_areas
        IN  /\ d # <<>> => ret.result.top_area = d[1].area_name
            /\ \A n \in 1..(Len(d) - 1) :
                  /\ ~AreaKeyLess(d[n], d[n + 1])
                  /\ (~AreaKeyLess(d[n + 1], d[n]))
                        => PriorityRank(d[n].area_name) < PriorityRank(d[n + 1].area_name)


\* C11: the recommendation is a function of the sorted detection result: no
\* detected area gives "No clear area detected"; a top area with confidence >=
\* 0.50 and >= 3 matches gives a high-confidence recommendation naming the top
\* area, or naming the top and the second area when the second detected area has
\* confidence >= 0.35; otherwise a top confidence >= 0.30 gives a
\* moderate-confidence recommendation naming only the top area; otherwise a
\* low-confidence recommendation to load all test cases.
C11_Recommendation ==
    Detected =>
        LET d == ret.result.detected_areas
            r == ret.result.recommendation
        IN  IF d = <<>> THEN r.kind = "no_clear_area"
            ELSE IF d[1].confidence >= 5000 /\ d[1].matched_keywords >= 3
            THEN IF Len(d) >= 2 /\ d[2].confidence >= 3500
                 THEN /\ r.kind = "multi_area"
                      /\ r.areas = <<d[1].area_name, d[2].area_name>>
                 ELSE /\ r.kind = "high_confidence"
                      /\ r.areas = <<d[1].area_name>>
                      /\ r.matches = d[1].matched_keywords
            ELSE IF d[1].confidence >= 3000
            THEN /\ r.kind = "moderate_confidence"
                 /\ r.areas = <<d[1].area_name>>
                 /\ r.matches = d[1].matched_keywords
            ELSE r.kind = "low_confidence"

\* C11 witness: a top area with at least 3 matches and a second detected area,
\* recommended together.
C11_Witness ==
    /\ Detected
    /\ Len(ret.result.detected_areas) >= 2
    /\ ret.result.detected_areas[1].matched_keywords >= 3
    /\ ret.result.recommendation.kind = "multi_area"

\* Reachable cases of C11: no area, one area with high confidence, a top area
\* with moderate confidence.
C11_CaseNone == Detected /\ ret.result.recommendation.kind = "no_clear_area"
C11_CaseHigh == Detected /\ ret.result.recommendation.kind = "high_confidence"
C11_CaseModerate == Detected /\ ret.result.recommendation.kind = "moderate_confidence"

(***************************************************************************)
(* Properties of detect_and_load_test_cases (checked under SpecLoad)       *)
(***************************************************************************)

Loaded == ret.op = "detect_and_load_test_cases"

\* The fields of a loaded record that come from the shard's row.
RowOf(tc) ==
    [id |-> tc.id, title |-> tc.title, state |-> tc.state, area |-> tc.area,
     created_date |-> tc.created_date, description |-> tc.description,
     steps |-> tc.steps]

\* The shards of the named areas, one after the other.
RECURSIVE ShardsOf(_)
ShardsOf(area_names) ==
    IF area_names = <<>> THEN <<>>
    ELSE TestCasesCache[Head(area_names)] \o ShardsOf(Tail(area_names))

\* The areas the loading rule selects for a sorted detection result.
SelectedAreas(d, force_all) ==
    IF force_all \/ d = <<>> THEN CSV_FILE_MAPPING
    ELSE IF d[1].confidence >= 3000 /\ d[1].matched_keywords >= 2
         THEN IF Len(d) >= 2 /\ d[2].confidence >= 3500 /\ d[2].matched_keywords >= 3
              THEN <<d[1].area_name, d[2].area_name>>
              ELSE <<d[1].area_name>>
         ELSE CSV_FILE_MAPPING

\* C12: detect_and_load_test_cases loads all configured areas when force_all is
\* set or no area is detected; otherwise it loads the top area alone when its
\* confidence >= 0.30 and matches >= 2, adds the second detected area exactly
\* when that area has confidence >= 0.35 and matches >= 3, and loads all areas
\* when the top area fails its test; afterwards the agent's list is exactly the
\* concatenation of the selected areas' shards in that order.
C12_LoadingDecision ==
    Loaded =>
        /\ ret.detection = DetectRelevantAreas(ret.bug_description, ret.repro_steps)
        /\ ret.areas_loaded = SelectedAreas(ret.detection.detected_areas, ret.force_all)
        /\ Len(test_cases) = Len(ShardsOf(ret.areas_loaded))
        /\ \A i \in 1..Len(test_cases) :
              RowOf(test_cases[i]) = ShardsOf(ret.areas_loaded)[i]
        /\ ret.test_cases_count = Len(test_cases)

\* C12 witness: a second detected area with confidence >= 0.35 but only 2
\* matches is left out, and the top area's shard alone is loaded.
C12_Witness ==
    /\ Loaded
    /\ ~ret.force_all
    /\ Len(ret.detection.detected_areas) >= 2
    /\ ret.detection.detected_areas[2].confidence >= 3500
    /\ ret.detection.detected_areas[2].matched_keywords = 2
    /\ Len(ret.areas_loaded) = 1
    /\ test_cases # <<>>

\* Reachable cases of C12: two areas loaded, in an order that is not the order
\* of the configuration; all areas loaded for a text without keywords; all
\* areas loaded by force_all although an area is detected.
C12_CaseTwoAreas ==
    /\ Loaded
    /\ ret.areas_loaded = <<"Billing", "Expert Disbursements">>
    /\ Len(test_cases) = 8
C12_CaseNoArea ==
    Loaded /\ ~ret.force_all /\ ret.detection.detected_areas = <<>>
           /\ ret.areas_loaded = CSV_FILE_MAPPING
C12_CaseForceAll ==
    Loaded /\ ret.force_all /\ ret.detection.detected_areas # <<>>
           /\ ret.areas_loaded = CSV_FILE_MAPPING

(***************************************************************************)
(* Properties of analyze_bug_report (checked under SpecAnalyze)            *)
(***************************************************************************)

Analyzed == ret.op = "analyze_bug_report"

\* The analysis went past the check for an empty list.
Completed == Analyzed /\ ~ret.result.error

\* C13: every call of analyze_bug_report with auto_load on the shared agent
\* ranks its bug against exactly the records of the shards the detector
\* selects for that call's own bug text, whatever earlier calls or uploads
\* left in the agent.
C13_RanksOwnShards ==
    (Analyzed /\ ret.auto_load) =>
        ret.ranked_against =
            DetectAndLoad(ret.bug_description, ret.repro_steps, FALSE).test_cases

\* Reachable cases around C13: a first call ranks against its own shard; a later
\* call for a Collections bug ranks against the Billing shard an earlier call
\* loaded; a call after an upload ranks against the uploaded records.
C13_CaseOwnShard ==
    /\ Completed /\ ret.auto_load /\ ret.loaded_before = <<>>
    /\ ret.ranked_against = DetectAndLoad(ret.bug_description, ret.repro_steps, FALSE).test_cases
C13_CaseStaleShard ==
    /\ Completed /\ ret.auto_load
    /\ ret.bug_description = <<"P","a","y","m","e","n","t"," ","p","l","a","n"," ","f","o","r"," ","p","a","y","o","r">>
    /\ DetectAndLoad(ret.bug_description, ret.repro_steps, FALSE).areas_loaded = <<"Collections">>
    /\ ret.ranked_against = DetectAndLoad(<<"b","i","l","l","i","n","g">>, <<>>, FALSE).test_cases
    /\ ret.ranked_against # <<>>
C13_CaseUpload ==
    Completed /\ ret.auto_load /\ ret.ranked_against = <<TC_B, TC_C>>

\* The triple of thresholds the specification gives for a strictness level.
ThresholdsOf(strictness) ==
    CASE strictness = "lenient"  -> [min_similarity |-> 3500, claude_analysis |-> 4500, csv_export |-> 4000]
      [] strictness = "moderate" -> [min_similarity |-> 5000, claude_analysis |-> 5500, csv_export |-> 5000]
      [] strictness = "strict"   -> [min_similarity |-> 6500, claude_analysis |-> 7000, csv_export |-> 6000]
      [] OTHER                   -> [min_similarity |-> 3500, claude_analysis |-> 4500, csv_export |-> 4000]

C14_CaseLenient == Completed /\ ret.strictness = "lenient" /\ ret.result.similar_tests # <<>>
C14_CaseModerate == Completed /\ ret.strictness = "moderate" /\ ret.result.similar_tests # <<>>
C14_CaseStrict == Completed /\ ret.strictness = "strict" /\ ret.result.similar_tests # <<>>

\* The candidates of a list whose score is at least a threshold, in order.
AtLeast(similar_tests, threshold) ==
    SelectSeq(similar_tests, LAMBDA e : e.similarity_score >= threshold)

\* C15: the candidates handed to the reasoning collaborator are exactly the
\* returned candidates whose score is >= the level's reasoning-call threshold,
\* in rank order; when none qualifies they are exactly the first min(5, n) of
\* the n returned candidates.
C15_HandedToCollaborator ==
    Completed =>
        ret.result.high_confidence_tests =
            IF AtLeast(ret.result.similar_tests,
                       ThresholdsOf(ret.strictness).claude_analysis) # <<>>
            THEN AtLeast(ret.result.similar_tests,
                         ThresholdsOf(ret.strictness).claude_analysis)
            ELSE [n \in 1..(IF Len(ret.result.similar_tests) < 5
                            THEN Len(ret.result.similar_tests) ELSE 5) |->
                     ret.result.similar_tests[n]]

\* C15 witness: six candidates are returned, none reaches the reasoning-call
\* threshold, and the first five are handed over.
C15_Witness ==
    /\ Completed
    /\ Len(ret.result.similar_tests) >= 6
    /\ AtLeast(ret.result.similar_tests, ThresholdsOf(ret.strictness).claude_analysis) = <<>>
    /\ Len(ret.result.high_confidence_tests) = 5
    /\ ret.result.summary.high_confidence_tests_analyzed = 5

\* Reachable cases of C15: some but not all returned candidates qualify; fewer
\* than five are returned and none qualifies; nothing is returned.
C15_CaseSomeQualify ==
    /\ Completed
    /\ ret.result.high_confidence_tests # <<>>
    /\ Len(ret.result.high_confidence_tests) < Len(ret.result.similar_tests)
    /\ ret.result.high_confidence_tests[1].similarity_score
           >= ThresholdsOf(ret.strictness).claude_analysis
C15_CaseFewReturned ==
    /\ Completed
    /\ Len(ret.result.similar_tests) \in 1..4
    /\ AtLeast(ret.result.similar_tests, ThresholdsOf(ret.strictness).claude_analysis) = <<>>
    /\ ret.result.high_confidence_tests = ret.result.similar_tests
C15_CaseNoneReturned ==
    Completed /\ ret.result.similar_tests = <<>> /\ ret.result.high_confidence_tests = <<>>

\* C16: with output_format 'csv' and no explicit similarity_threshold the
\* exported rows are exactly the returned candidates whose score is >= the
\* export threshold of the level (0.40 lenient, 0.50 moderate, 0.60 strict).
C16_ExportThreshold ==
    (Completed /\ ret.output_format = "csv") =>
        ret.result.csv_rows =
            AtLeast(ret.result.similar_tests, ThresholdsOf(ret.strictness).csv_export)

\* Reachable cases around C16: a lenient export holds a row below 0.40; a
\* moderate and a strict export hold rows, all at or above the export threshold.
C16_CaseLenientBelowExport ==
    /\ Completed /\ ret.output_format = "csv" /\ ret.strictness = "lenient"
    /\ \E n \in 1..Len(ret.result.csv_rows) :
          ret.result.csv_rows[n].similarity_score < 4000
C16_CaseModerate ==
    /\ Completed /\ ret.output_format = "csv" /\ ret.strictness = "moderate"
    /\ ret.result.csv_rows # <<>>
C16_CaseStrict ==
    /\ Completed /\ ret.output_format = "csv" /\ ret.strictness = "strict"
    /\ ret.result.csv_rows # <<>>

\* C20: when no test case is loaded after the auto-load step, analyze_bug_report
\* returns a result with an error field, empty similar_tests and
\* duplicate_analysis and zero counts, and calls neither the embedding
\* provider nor the reasoning collaborator.
C20_NoTestCases ==
    (Analyzed /\ ret.ranked_against = <<>>) =>
        /\ ret.result.error
        /\ ret.result.similar_tests = <<>>
        /\ ret.result.duplicate_analysis = <<>>
        /\ ret.result.claude_analysis = [k \in {} |-> <<>>]
        /\ ret.result.summary = [total_test_cases_analyzed  |-> 0,
                                 similar_tests_found        |-> 0,
                                 potential_duplicates_found |-> 0]
        /\ ret.encoded = {}
        /\ ret.collaborator_calls = 0
        /\ test_cases = <<>>

\* C20 witness: the auto-load step ran, the detected area's shard is empty, and
\* the error result is returned.
C20_Witness ==
    /\ Analyzed
    /\ ret.auto_load
    /\ DetectAndLoad(ret.bug_description, ret.repro_steps, FALSE).areas_loaded = <<"Collections">>
    /\ ret.ranked_against = <<>>
    /\ ret.result.error

\* Reachable cases of C20: the error result without auto-load; an analysis of a
\* loaded list, which is no error and calls the provider and the collaborator.
C20_CaseNoAutoLoad == Analyzed /\ ~ret.auto_load /\ ret.result.error
C20_CaseLoaded ==
    Completed /\ ret.ranked_against # <<>> /\ ret.encoded # {} /\ ret.collaborator_calls = 2

(***************************************************************************)
(* Properties of detect_duplicates_with_claude and of the replies          *)
(* (checked under SpecDup)                                                 *)
(***************************************************************************)

DetectedDuplicates == ret.op = "detect_duplicates_with_claude"

\* detect_duplicates_with_claude ran, on its own or as step 4 of an analysis.
DuplicatesRan == DetectedDuplicates \/ Completed

\* What that run found, handed over and returned.
Outcome == IF DetectedDuplicates THEN ret.duplicates ELSE ret.result.duplicates

\* The threshold of that run (the pipeline uses the default).
ThresholdUsed == IF DetectedDuplicates THEN ret.similarity_threshold ELSE 9000

PairSet(pairs) == {pairs[n] : n \in 1..Len(pairs)}

\* C17: detect_duplicates_with_claude forwards at most 20 pairs to the reasoning
\* collaborator; the forwarded pairs are pairs that meet the threshold, no pair
\* left out scores higher than a forwarded one, and they are in descending
\* score order.
C17_ForwardedPairs ==
    DuplicatesRan =>
        /\ Len(Outcome.forwarded) <= 20
        /\ Len(Outcome.forwarded) =
              (IF Len(Outcome.potential_duplicates) < 20
               THEN Len(Outcome.potential_duplicates) ELSE 20)
        /\ PairSet(Outcome.forwarded) \subseteq PairSet(Outcome.potential_duplicates)
        /\ Cardinality(PairSet(Outcome.forwarded)) = Len(Outcome.forwarded)
        /\ \A n \in 1..Len(Outcome.forwarded) :
              Outcome.forwarded[n].similarity_score >= ThresholdUsed
        /\ \A n \in 1..(Len(Outcome.forwarded) - 1) :
              Outcome.forwarded[n].similarity_score
                  >= Outcome.forwarded[n + 1].similarity_score
        /\ \A p \in PairSet(Outcome.potential_duplicates) \ PairSet(Outcome.forwarded) :
              \A n \in 1..Len(Outcome.forwarded) :
                  p.similarity_score <= Outcome.forwarded[n].similarity_score

\* C17 witness: 21 pairs meet the threshold, found in an order that is not
\* descending, and 20 are forwarded, pairs of two different scores among them.
C17_Witness ==
    /\ DetectedDuplicates
    /\ Len(Outcome.potential_duplicates) = 21
    /\ Len(Outcome.forwarded) = 20
    /\ Outcome.forwarded[1].similarity_score > Outcome.forwarded[20].similarity_score
    /\ \E n \in 1..20 :
          Outcome.potential_duplicates[n].similarity_score
              < Outcome.potential_duplicates[n + 1].similarity_score

\* Reachable cases of C17: no pair meets the threshold and the collaborator is
\* not called; fewer than 20 pairs are all forwarded; the pipeline forwards
\* pairs too.
C17_CaseNoPair ==
    /\ DetectedDuplicates /\ Len(ret.test_cases) >= 2
    /\ Outcome.potential_duplicates = <<>> /\ ~Outcome.called
C17_CaseAllForwarded ==
    /\ DetectedDuplicates /\ Len(Outcome.potential_duplicates) \in 2..19
    /\ Len(Outcome.forwarded) = Len(Outcome.potential_duplicates)
C17_CasePipeline == Completed /\ Len(Outcome.forwarded) >= 2

\* The cosine similarity of the texts of the records at two positions.
OwnCosine(tcs, cache, i, j) ==
    Cosines[cache[CombinedText(tcs[i])], cache[CombinedText(tcs[j])]]

\* The position pairs i < j of a list whose similarity reaches the threshold.
PositionPairs(tcs, cache, similarity_threshold) ==
    IF Len(tcs) < 2 THEN {}
    ELSE {p \in (1..Len(tcs)) \X (1..Len(tcs)) :
             p[1] < p[2] /\ OwnCosine(tcs, cache, p[1], p[2]) >= similarity_threshold}

\* C18: the candidate pairs detect_duplicates_with_claude builds are exactly
\* the position pairs i < j of the list whose unboosted cosine similarity is
\* >= similarity_threshold, each pairing the records at those two positions
\* (none for fewer than 2 records; two identical records form a pair for every
\* threshold their similarity reaches, also when they share an id).
C18_CandidatePairs ==
    DetectedDuplicates =>
        /\ Len(Outcome.potential_duplicates) =
              Cardinality(PositionPairs(ret.test_cases, embeddings_cache,
                                        ret.similarity_threshold))
        /\ PairSet(Outcome.potential_duplicates) =
              {[test_case_1      |-> ret.test_cases[p[1]],
                test_case_2      |-> ret.test_cases[p[2]],
                similarity_score |-> OwnCosine(ret.test_cases, embeddings_cache, p[1], p[2])] :
                 p \in PositionPairs(ret.test_cases, embeddings_cache,
                                     ret.similarity_threshold)}

\* Reachable cases around C18: two identical records under one id, of similarity
\* 1.0, give no pair; two identical records under two ids give the pair; a single
\* record gives none; two records of zero-norm embedding give none; lists of
\* distinct ids give exactly the position pairs, 21 of them for seven records.
C18_CaseSharedId ==
    /\ DetectedDuplicates
    /\ Len(ret.test_cases) = 2
    /\ ret.test_cases[1] = ret.test_cases[2]
    /\ OwnCosine(ret.test_cases, embeddings_cache, 1, 2) = Scale
    /\ Outcome.potential_duplicates = <<>>
C18_CaseTwoIds ==
    /\ DetectedDuplicates
    /\ Len(ret.test_cases) = 2
    /\ ret.test_cases[1].id # ret.test_cases[2].id
    /\ ret.similarity_threshold = 9000
    /\ Outcome.potential_duplicates =
          << [test_case_1 |-> ret.test_cases[1], test_case_2 |-> ret.test_cases[2],
              similarity_score |-> Scale] >>
C18_CaseSingle ==
    DetectedDuplicates /\ Len(ret.test_cases) = 1 /\ Outcome.potential_duplicates = <<>>
C18_CaseZeroNorm ==
    /\ DetectedDuplicates
    /\ Len(ret.test_cases) = 2
    /\ ret.test_cases[1].id # ret.test_cases[2].id
    /\ embeddings_cache[CombinedText(ret.test_cases[1])] = <<0, 0>>
    /\ Outcome.potential_duplicates = <<>>
C18_CaseDistinctIds ==
    /\ DetectedDuplicates
    /\ Len(ret.test_cases) = 7
    /\ Len(Outcome.potential_duplicates) = 21
    /\ Cardinality(PositionPairs(ret.test_cases, embeddings_cache,
                                 ret.similarity_threshold)) = 21

\* The replies that hold no JSON object or a malformed one.
Unparseable == RepliesNotJson \cup RepliesMalformed

\* C19: for every reply of the reasoning collaborator that is not JSON or is
\* malformed JSON, analyze_bug_with_claude returns the fallback result (empty
\* related_tests, suggested_updates, new_test_cases and duplicate_tests plus
\* raw_response) and detect_duplicates_with_claude returns the capped raw
\* similarity pairs unclassified; analyze_bug_report still returns a complete
\* result.
C19_ReplyFallback ==
    /\ (Completed /\ ret.analysis_reply \in Unparseable) =>
          ret.result.claude_analysis =
              [related_tests     |-> <<>>,
               suggested_updates |-> <<>>,
               new_test_cases    |-> <<>>,
               duplicate_tests   |-> <<>>,
               raw_response      |-> ret.analysis_reply]
    /\ (DuplicatesRan /\ Outcome.called /\ ret.duplicates_reply \in Unparseable) =>
          /\ Outcome.result = Outcome.forwarded
          /\ Len(Outcome.result) \in 1..20
          /\ PairSet(Outcome.result) \subseteq PairSet(Outcome.potential_duplicates)
          /\ \A n \in 1..Len(Outcome.result) :
                DOMAIN Outcome.result[n] =
                    {"test_case_1", "test_case_2", "similarity_score"}
    /\ Completed =>
          /\ ret.result.duplicate_analysis = Outcome.result
          /\ {"similar_tests", "claude_analysis", "duplicate_analysis", "summary"}
                \subseteq DOMAIN ret.result
          /\ ret.result.summary.total_test_cases_analyzed = Len(ret.ranked_against)
          /\ ret.result.summary.similar_tests_found = Len(ret.result.similar_tests)
          /\ ret.result.summary.potential_duplicates_found
                = Len(ret.result.duplicate_analysis)

\* C19 witness: an analysis whose two replies hold no parseable object returns
\* the fallback analysis and the raw pairs.
C19_Witness ==
    /\ Completed
    /\ ret.analysis_reply \in Unparseable
    /\ ret.duplicates_reply \in Unparseable
    /\ Outcome.called
    /\ "raw_response" \in DOMAIN ret.result.claude_analysis
    /\ ret.result.duplicate_analysis = Outcome.forwarded
    /\ ret.result.duplicate_analysis # <<>>

\* Reachable cases of C19: /detect-duplicates gets a malformed reply for 21
\* pairs and returns 20; an object inside other text is parsed; a reply with a
\* group is returned enriched.
C19_CaseCappedRawPairs ==
    /\ DetectedDuplicates
    /\ ret.duplicates_reply \in RepliesMalformed
    /\ Len(Outcome.potential_duplicates) = 21
    /\ Len(Outcome.result) = 20
C19_CaseObjectInText ==
    /\ Completed
    /\ ret.analysis_reply = <<"x", "{", "}", "x">>
    /\ ret.result.claude_analysis = [k \in {} |-> <<>>]
C19_CaseEnriched ==
    /\ DetectedDuplicates
    /\ ret.duplicates_reply = <<"{", "g", "}">>
    /\ Len(Outcome.result) = 1
    /\ "test_case_1_id" \in DOMAIN Outcome.result[1]

(***************************************************************************)
(* Further properties of the detector and the loader (checked under        *)
(* SpecLoad)                                                               *)
(***************************************************************************)

\* C26: whenever at least one area is detected its confidence is at least 0.38,
\* so the recommendation is never the low-confidence one and the loader never
\* takes its 'confidence too low' branch: without force_all a non-empty
\* detection narrows the load to one or two areas, the first being the top area.
C26_ConfidenceFloor ==
    (Loaded /\ ret.detection.detected_areas # <<>>) =>
        /\ \A n \in 1..Len(ret.detection.detected_areas) :
              ret.detection.detected_areas[n].confidence >= 3800
        /\ ret.recommendation.kind # "low_confidence"
        /\ ~ret.force_all =>
              /\ Len(ret.areas_loaded) \in {1, 2}
              /\ ret.areas_loaded[1] = ret.detection.top_area
              /\ ret.areas_loaded # CSV_FILE_MAPPING

\* C26 witness: a top area at the least confidence, 0.38, is loaded alone.
C26_Witness ==
    /\ Loaded
    /\ ~ret.force_all
    /\ ret.detection.detected_areas # <<>>
    /\ ret.detection.detected_areas[1].confidence = 3800
    /\ ret.areas_loaded = <<ret.detection.top_area>>

\* C27: without force_all the areas loaded are exactly the areas the
\* recommendation tells the caller to load (all areas when it names none), and
\* two areas are loaded if and only if the recommendation names two areas.
C27_LoadsWhatIsRecommended ==
    (Loaded /\ ~ret.force_all) =>
        /\ ret.areas_loaded =
              (IF ret.recommendation.kind \in {"no_clear_area", "low_confidence"}
               THEN CSV_FILE_MAPPING
               ELSE ret.recommendation.areas)
        /\ Len(ret.areas_loaded) = 2 <=> ret.recommendation.kind = "multi_area"

\* Reachable cases around C27: the recommendation names two areas and one is
\* loaded; it names two areas and both are loaded; it names one area and that
\* area is loaded; it names none and all are loaded.
C27_CaseTwoNamedOneLoaded ==
    /\ Loaded /\ ~ret.force_all
    /\ ret.recommendation.kind = "multi_area"
    /\ ret.areas_loaded = <<ret.recommendation.areas[1]>>
C27_CaseTwoNamedTwoLoaded ==
    /\ Loaded /\ ~ret.force_all
    /\ ret.recommendation.kind = "multi_area"
    /\ ret.areas_loaded = ret.recommendation.areas
C27_CaseOneNamed ==
    /\ Loaded /\ ~ret.force_all
    /\ ret.recommendation.kind \in {"high_confidence", "moderate_confidence"}
    /\ ret.areas_loaded = ret.recommendation.areas
C27_CaseNoneNamed ==
    /\ Loaded /\ ~ret.force_all
    /\ ret.recommendation.kind = "no_clear_area"
    /\ ret.areas_loaded = CSV_FILE_MAPPING

\* A keyword occurs in a text: at some offset every character of the keyword
\* equals the character of the text, letter case apart.
OccursIn(keyword, text) ==
    \E o \in 0..(Len(text) - Len(keyword)) :
        \A i \in 1..Len(keyword) : LowerChar(keyword[i]) = LowerChar(text[o + i])

\* The keywords of an area, by position, that occur in the texts of the call.
KeywordsFound(area_name) ==
    {k \in 1..Len(AREA_KEYWORDS[area_name]) :
        OccursIn(AREA_KEYWORDS[area_name][k],
                 JoinSpace(ret.bug_description, ret.repro_steps))}

\* The entry of detected_areas for an area, as a set of at most one entry.
EntriesOf(area_name) ==
    {n \in 1..Len(ret.detection.detected_areas) :
        ret.detection.detected_areas[n].area_name = area_name}

\* C30: each configured keyword of an area is counted at most once, by
\* case-insensitive substring test against description + ' ' + repro steps,
\* keywords contained in other keywords included: the word 'billing' gives
\* Billing 2 matches (bill, billing) and narrows the load to Billing, and the
\* word 'disbursements' gives Expert Disbursements 3 matches.
C30_KeywordCount ==
    Loaded =>
        /\ \A a \in AreaNames :
              /\ Cardinality(EntriesOf(a)) = (IF Cardinality(KeywordsFound(a)) >= 2 THEN 1 ELSE 0)
              /\ \A n \in EntriesOf(a) :
                    ret.detection.detected_areas[n].matched_keywords
                        = Cardinality(KeywordsFound(a))
        /\ (ret.bug_description = <<"b","i","l","l","i","n","g">> /\ ret.repro_steps = <<>>) =>
              /\ \E n \in EntriesOf("Billing") :
                    ret.detection.detected_areas[n].matched_keywords = 2
              /\ ~ret.force_all => ret.areas_loaded = <<"Billing">>
        /\ (ret.bug_description = <<"d","i","s","b","u","r","s","e","m","e","n","t","s">> /\ ret.repro_steps = <<>>) =>
              \E n \in EntriesOf("Expert Disbursements") :
                  ret.detection.detected_areas[n].matched_keywords = 3

\* C30 witness: the single word 'billing' is detected as Billing with 2 matches
\* and the load is narrowed to Billing.
C30_Witness ==
    /\ Loaded
    /\ ~ret.force_all
    /\ ret.bug_description = <<"b","i","l","l","i","n","g">>
    /\ ret.repro_steps = <<>>
    /\ ret.detection.detected_areas[1].area_name = "Billing"
    /\ ret.detection.detected_areas[1].matched_keywords = 2
    /\ ret.areas_loaded = <<"Billing">>

\* Reachable cases of C30: 'disbursements' gives 3 matches; a keyword
\* configured in upper case (WIP, AP) is found in a text.
C30_CaseDisbursements ==
    /\ Loaded
    /\ ret.bug_description = <<"d","i","s","b","u","r","s","e","m","e","n","t","s">> /\ ret.repro_steps = <<>>
    /\ ret.detection.detected_areas[1].matched_keywords = 3
C30_CaseUpperCaseKeyword ==
    /\ Loaded
    /\ \E n \in EntriesOf("Accounts Payable") :
          /\ 2 \in KeywordsFound("Accounts Payable")
          /\ ret.detection.detected_areas[n].matched_keywords
                = Cardinality(KeywordsFound("Accounts Payable"))

(***************************************************************************)
(* Properties of the MCP server (checked under SpecServer)                 *)
(***************************************************************************)

ServerLoaded == ret.op = "load_all_test_cases"

\* The rows of a source file that can be read, in order.
RECURSIVE ReadableRowsOf(_)
ReadableRowsOf(source) ==
    IF source = <<>> THEN <<>>
    ELSE (IF Head(source).readable THEN <<Head(source).row>> ELSE <<>>)
         \o ReadableRowsOf(Tail(source))

\* C23: when reading one row of a shard's source fails during the server's
\* load, only that row is skipped: every other readable row of the source,
\* before and after the failing one, is in the shard afterwards, and the other
\* shards are loaded as if nothing had failed.
C23_OnlyFailingRowSkipped ==
    ServerLoaded =>
        \A a \in DOMAIN ret.sources :
            ret.test_cases_cache[a] = ReadableRowsOf(ret.sources[a])

\* Reachable cases around C23: a readable row after a failing one is not in the
\* shard; the rows before the failing one are; a failing last row loses
\* nothing; a failure in one shard leaves the other shard complete.
C23_CaseRowAfterFailureLost ==
    /\ ServerLoaded
    /\ Len(ret.sources["Billing"]) = 3
    /\ ret.sources["Billing"][1].readable
    /\ ~ret.sources["Billing"][2].readable
    /\ ret.sources["Billing"][3].readable
    /\ ret.test_cases_cache["Billing"] = <<ret.sources["Billing"][1].row>>
C23_CaseFailingLastRow ==
    /\ ServerLoaded
    /\ Len(ret.sources["Billing"]) = 3
    /\ ret.sources["Billing"][1].readable
    /\ ret.sources["Billing"][2].readable
    /\ ~ret.sources["Billing"][3].readable
    /\ Len(ret.test_cases_cache["Billing"]) = 2
C23_CaseOtherShardUnaffected ==
    /\ ServerLoaded
    /\ ret.sources["Billing"] # <<>>
    /\ ~ret.sources["Billing"][1].readable
    /\ ret.test_cases_cache["Billing"] = <<>>
    /\ Len(ret.test_cases_cache["Expert Disbursements"]) = 1

Searched == ret.op = "search_by_area"

\* The records of an area of the store in the state asked for (all of them when
\* no state is asked for), none for an area the store does not know.
InState(area_name, state_filter) ==
    IF area_name \notin DOMAIN TestCasesCache THEN <<>>
    ELSE IF state_filter = None \/ state_filter = Some("")
         THEN TestCasesCache[area_name]
         ELSE SelectSeq(TestCasesCache[area_name], LAMBDA tc : tc.state = state_filter[1])

\* The records returned for an area, without the source_area key.
ReturnedFor(area_name) ==
    LET got == SelectSeq(ret.result.test_cases, LAMBDA tc : tc.source_area = area_name)
    IN  [n \in 1..Len(got) |-> RowOf(got[n])]

\* C25: for every integer limit passed to search_by_area, 0 included, at most
\* limit test cases are returned from each requested area, the first ones of
\* the area after the state filter; an area name unknown to the store
\* contributes no record and the call returns.
C25_LimitPerArea ==
    Searched =>
        /\ \A i \in 1..Len(ret.area_names) :
              LET a == ret.area_names[i] IN
              /\ Len(ReturnedFor(a)) <= Len(InState(a, ret.state_filter))
              /\ ReturnedFor(a) = SubSeq(InState(a, ret.state_filter), 1, Len(ReturnedFor(a)))
              /\ ret.limit # None => Len(ReturnedFor(a)) <= ret.limit[1]
              /\ (ret.limit # None /\ ret.limit[1] >= 0) =>
                    Len(ReturnedFor(a)) = Min(ret.limit[1], Len(InState(a, ret.state_filter)))
              /\ ret.limit = None => ReturnedFor(a) = InState(a, ret.state_filter)
        /\ ret.result.count = Len(ret.result.test_cases)
        /\ \A n \in 1..Len(ret.result.test_cases) :
              \E i \in 1..Len(ret.area_names) :
                  ret.area_names[i] = ret.result.test_cases[n].source_area

\* Reachable cases around C25: limit 0 returns every record of the area; a
\* positive limit cuts each area after the state filter; an unknown area
\* contributes nothing next to a known one; without arguments the result is
\* that of the loader's search.
C25_CaseLimitZero ==
    /\ Searched
    /\ ret.limit = Some(0)
    /\ ret.area_names = <<"Billing">>
    /\ ret.state_filter = None
    /\ Len(ret.result.test_cases) = 7
C25_CaseLimitAfterFilter ==
    /\ Searched
    /\ ret.limit = Some(2)
    /\ ret.state_filter = Some("Design")
    /\ ret.area_names = <<"Expert Disbursements", "Billing">>
    /\ Len(ret.result.test_cases) = 1
    /\ ret.result.test_cases[1].id = "b4"
C25_CaseLimitPerArea ==
    /\ Searched
    /\ ret.limit = Some(2)
    /\ ret.state_filter = Some("Ready")
    /\ ret.area_names = <<"Expert Disbursements", "Billing">>
    /\ Len(ret.result.test_cases) = 3
C25_CaseUnknownArea ==
    /\ Searched
    /\ ret.area_names = <<"Payroll", "Billing">>
    /\ ret.limit = Some(1)
    /\ Len(ret.result.test_cases) = 1
    /\ ret.result.test_cases[1].source_area = "Billing"
C25_CaseDefaults ==
    /\ Searched
    /\ ret.limit = None /\ ret.state_filter = None
    /\ ret.area_names = <<"Expert Disbursements", "Billing">>
    /\ ret.result = SearchByArea(ret.area_names)

(***************************************************************************)
(* Properties of extract_bug_id_from_text (checked under SpecExtract)      *)
(***************************************************************************)

Extracted == ret.op = "extract_bug_id_from_text"

\* The positions of a text that hold a '#' immediately followed by at least 3
\* digits.
BugIdPositions(t) ==
    {i \in 1..Len(t) :
        /\ t[i] = "#"
        /\ i + 3 <= Len(t)
        /\ t[i + 1] \in {"1", "2"} /\ t[i + 2] \in {"1", "2"} /\ t[i + 3] \in {"1", "2"}}

\* The last position of the run of digits that starts at position i + 1.
RunEnd(t, i) ==
    CHOOSE j \in (i + 1)..Len(t) :
        /\ \A k \in (i + 1)..j : t[k] \in {"1", "2"}
        /\ j = Len(t) \/ t[j + 1] \notin {"1", "2"}

\* C24: extract_bug_id_from_text returns the full run of digits that follows
\* the first '#' immediately followed by at least 3 digits, and None when the
\* text is None, empty or has no such '#'; a '#' followed by 1 or 2 digits
\* only never gives a result.
C24_BugId ==
    Extracted =>
        IF ret.text = None \/ ret.text = Some(<<>>) \/ BugIdPositions(ret.text[1]) = {}
        THEN ret.result = None
        ELSE LET t == ret.text[1]
                 i == CHOOSE p \in BugIdPositions(t) : \A q \in BugIdPositions(t) : p <= q
             IN  ret.result = Some(SubSeq(t, i + 1, RunEnd(t, i)))

\* C24 witness: the first '#' is not followed by a digit and gives nothing; the
\* id is the run after the second '#'.
C24_Witness ==
    /\ Extracted
    /\ ret.text = Some(<<"#", "#", "2", "1", "2">>)
    /\ ret.result = Some(<<"2", "1", "2">>)

\* Reachable cases of C24: None; the empty text; a '#' with two digits only,
\* twice; a run of more than 3 digits returned whole; a run ended by a letter.
C24_CaseNone == Extracted /\ ret.text = None /\ ret.result = None
C24_CaseEmpty == Extracted /\ ret.text = Some(<<>>) /\ ret.result = None
C24_CaseTwoDigits ==
    Extracted /\ ret.text = Some(<<"a", "#", "1", "2", "a">>) /\ ret.result = None
C24_CaseTwoDigitsTwice ==
    Extracted /\ ret.text = Some(<<"#", "1", "#", "1", "2">>) /\ ret.result = None
C24_CaseLongRun ==
    /\ Extracted
    /\ ret.text = Some(<<"#", "1", "2", "1", "2">>)
    /\ ret.result = Some(<<"1", "2", "1", "2">>)
C24_CaseRunEnded ==
    /\ Extracted
    /\ ret.text = Some(<<"#", "1", "1", "2", "a">>)
    /\ ret.result = Some(<<"1", "1", "2">>)

(***************************************************************************)
(* Properties of get_embedding (checked under SpecEmbed)                   *)
(***************************************************************************)

Embedded == ret.op = "get_embedding"

\* C21: across every sequence of calls on one agent the set of cached texts
\* only grows and a cached vector never changes; get_embedding asks the
\* provider exactly when its text is not cached yet, and returns the vector
\* stored for the text, which is the one of the text's first call.
C21_CacheGrowsOnly ==
    [][/\ DOMAIN embeddings_cache \subseteq DOMAIN embeddings_cache'
       /\ \A t \in DOMAIN embeddings_cache : embeddings_cache'[t] = embeddings_cache[t]
       /\ (ret' # ret /\ ret'.op = "get_embedding") =>
             /\ ret'.provider_called <=> ret'.text \notin DOMAIN embeddings_cache
             /\ ret'.text \in DOMAIN embeddings_cache'
             /\ ret'.result = embeddings_cache'[ret'.text]
             /\ ret'.text \in DOMAIN embeddings_cache =>
                   ret'.result = embeddings_cache[ret'.text]
             /\ DOMAIN embeddings_cache' = DOMAIN embeddings_cache \cup {ret'.text}]_vars

\* C21 witness: a call for a cached text returns the stored vector without
\* asking the provider, while other texts are cached too.
C21_Witness ==
    /\ Embedded
    /\ ~ret.provider_called
    /\ ret.result = embeddings_cache[ret.text]
    /\ Cardinality(DOMAIN embeddings_cache) >= 2

\* Reachable cases of C21: a first call asks the provider; a call returns the
\* vector a ranking stored.
C21_CaseFirstCall ==
    Embedded /\ ret.provider_called /\ embeddings_cache = (ret.text :> ret.result)
C21_CaseAllCached == Embedded /\ DOMAIN embeddings_cache = EmbedTexts

(***************************************************************************)
(* C22: a ranking call and a replacement of the list on another thread     *)
(***************************************************************************)

\* A ranking call that has left its scoring pass, by return or by exception.
RankingLeft == ret.op = "find_similar_test_cases" /\ ret.pc \in {"returned", "raised"}

\* C22: a find_similar_test_cases call during which another thread replaced
\* self.test_cases uses one single version of the list for its embedding pass
\* and its scoring pass and completes without error.
C22_OneVersion ==
    RankingLeft =>
        /\ ret.pc = "returned"
        /\ ret.scored_list = ret.embedded_list

\* C22, cases: the call raises KeyError when the new list has an id the
\* embedding pass did not see.
C22_CaseKeyError ==
    /\ RankingLeft
    /\ ret.pc = "raised"
    /\ ret.embedded_list = <<TC_A>>
    /\ ret.scored_list = <<TC_B>>

\* C22, cases: the call returns, having scored a list that is not the one it
\* embedded.
C22_CaseMixedVersions ==
    /\ RankingLeft
    /\ ret.pc = "returned"
    /\ ret.embedded_list = <<TC_A, TC_B>>
    /\ ret.scored_list = <<TC_B>>

\* C22, cases: no replacement between the passes, the call is that of the
\* single-threaded agent.
C22_CaseUndisturbed ==
    /\ RankingLeft
    /\ ret.pc = "returned"
    /\ ret.scored_list = ret.embedded_list
    /\ Len(ret.result) = 2

(***************************************************************************)
(* C29, C28: replies that are valid JSON                                   *)
(***************************************************************************)

\* The reply of the collaborator to the duplicates prompt of that run.
DuplicatesReply == ret.duplicates_reply

\* Replies that are valid JSON with duplicate_groups missing or empty.
RepliesWithoutGroups == { <<"x", "{", "}", "x">>, <<"{", "e", "}">> }

\* C29: whenever at least one pair meets the duplicate threshold, the result of
\* detect_duplicates_with_claude is non-empty for every reply of the
\* collaborator; a reply that is valid JSON with a missing or empty
\* duplicate_groups list yields the raw similarity pairs, as a reply that fails
\* to parse does.
C29_NeverEmpty ==
    (DuplicatesRan /\ Outcome.potential_duplicates # <<>>) =>
        /\ ~Outcome.raised
        /\ Outcome.result # <<>>
        /\ DuplicatesReply \in RepliesWithoutGroups =>
              Outcome.result = Outcome.forwarded

\* C29, cases: two identical records, reply {}: the pair is found, the
\* collaborator called, and the call returns the empty list.
C29_CaseMissingGroups ==
    /\ DetectedDuplicates
    /\ DuplicatesReply = <<"x", "{", "}", "x">>
    /\ Len(Outcome.potential_duplicates) = 1
    /\ Outcome.called
    /\ Outcome.result = <<>>

\* C29, cases: the same with "duplicate_groups": [].
C29_CaseEmptyGroups ==
    /\ DetectedDuplicates
    /\ DuplicatesReply = <<"{", "e", "}">>
    /\ Outcome.potential_duplicates # <<>>
    /\ Outcome.result = <<>>

\* C29, cases: step 4 of an analysis returns no duplicate although the
\* candidates hold a pair.
C29_CaseAnalysis ==
    /\ Completed
    /\ DuplicatesReply = <<"x", "{", "}", "x">>
    /\ Outcome.potential_duplicates # <<>>
    /\ ret.result.duplicate_analysis = <<>>
    /\ ret.result.summary.potential_duplicates_found = 0

\* C29, cases: a reply that fails to parse yields the raw pairs.
C29_CaseUnparseable ==
    /\ DetectedDuplicates
    /\ DuplicatesReply \in Unparseable
    /\ Outcome.potential_duplicates # <<>>
    /\ Outcome.result = Outcome.forwarded

\* The entries of the result that carry test_case_1_id and test_case_2_id.
ClassifiedEntries ==
    {n \in 1..Len(Outcome.result) :
        {"test_case_1_id", "test_case_2_id"} \subseteq DOMAIN Outcome.result[n]}

\* C28: every classified entry returned by detect_duplicates_with_claude that
\* carries test_case_1_id and test_case_2_id has a pair_id between 1 and the
\* number of forwarded pairs, and its two ids and similarity_score are those of
\* the forwarded pair at position pair_id, for every pair_id the reply can
\* contain (zero, negative and repeated ones included).
C28_PairIdInRange ==
    DuplicatesRan =>
        \A n \in ClassifiedEntries :
            /\ Outcome.result[n].pair_id \in 1..Len(Outcome.forwarded)
            /\ Outcome.result[n].test_case_1_id =
                  Outcome.forwarded[Outcome.result[n].pair_id].test_case_1.id
            /\ Outcome.result[n].test_case_2_id =
                  Outcome.forwarded[Outcome.result[n].pair_id].test_case_2.id
            /\ Outcome.result[n].similarity_score =
                  Outcome.forwarded[Outcome.result[n].pair_id].similarity_score

\* C28, cases: pair_id -1 with two pairs or more forwarded: the entry returned
\* has pair_id -1 and the data of the last pair but one.
C28_CaseNegative ==
    /\ DetectedDuplicates
    /\ DuplicatesReply = <<"{", "n", "}">>
    /\ Len(Outcome.forwarded) >= 2
    /\ Len(Outcome.result) = 1
    /\ Outcome.result[1].pair_id = 0 - 1
    /\ Outcome.result[1].test_case_1_id =
          Outcome.forwarded[Len(Outcome.forwarded) - 1].test_case_1.id
    /\ Outcome.result[1].similarity_score =
          Outcome.forwarded[Len(Outcome.forwarded) - 1].similarity_score

\* C28, cases: pair_id -1 with one pair forwarded: IndexError leaves the call.
C28_CaseIndexError ==
    /\ DetectedDuplicates
    /\ DuplicatesReply = <<"{", "n", "}">>
    /\ Len(Outcome.forwarded) = 1
    /\ Outcome.raised

\* C28, cases: pair_id 0 and a pair_id beyond the pairs are not enriched: the
\* group comes back as replied, without ids.
C28_CaseZeroOrBeyond ==
    /\ DetectedDuplicates
    /\ DuplicatesReply \in { <<"{", "z", "}">>, <<"{", "o", "}">>, <<"{", "t", "}">> }
    /\ Outcome.forwarded # <<>>
    /\ Len(Outcome.result) = 1
    /\ ClassifiedEntries = {}

\* C28, cases: pair_id 1 twice: two entries, each with the data of pair 1.
C28_CaseRepeated ==
    /\ DetectedDuplicates
    /\ DuplicatesReply = <<"{", "r", "}">>
    /\ Len(Outcome.forwarded) >= 2
    /\ ClassifiedEntries = {1, 2}
    /\ Outcome.result[1].pair_id = 1
    /\ Outcome.result[2].pair_id = 1
    /\ Outcome.result[1].test_case_1_id = Outcome.forwarded[1].test_case_1.id
    /\ Outcome.result[2].test_case_1_id = Outcome.forwarded[1].test_case_1.id

\* C28, cases: pair_id 2 with two pairs or more: the data of pair 2.
C28_CaseSecond ==
    /\ DetectedDuplicates
    /\ DuplicatesReply = <<"{", "t", "}">>
    /\ ClassifiedEntries = {1}
    /\ Outcome.result[1].pair_id = 2
    /\ Outcome.result[1].test_case_2_id = Outcome.forwarded[2].test_case_2.id
====
